---- MODULE Spec2Model ----
(***************************************************************************)
(* Country-level dataset assembly of CovidDataHandler                      *)
(* (src/covid_dashboard/data_handler.py; the copy in                       *)
(* src/dashboard/scripts/data_handler.py has the same assembly code).      *)
(*                                                                         *)
(* Conventions of the model                                                *)
(*   - Python None / an absent DataFrame is the empty tuple, a present     *)
(*     value x is the one-element tuple <<x>>.                             *)
(*   - A DataFrame is the sequence of its rows, a row is a record.         *)
(*   - A float cell is <<tag, n, d>>: a rational n/d in lowest terms with  *)
(*     d > 0 (tag "num"), or NaN, +inf, -inf.  Integer columns are Int.    *)
(*   - A null string cell is NullStr.                                      *)
(*   - date_rep is the day ordinal of the ISO date string; ISO strings     *)
(*     order and compare as their dates do.                                *)
(*   - a display name is the sequence of its characters.                   *)
(***************************************************************************)
EXTENDS Integers, Sequences, FiniteSets, TLC

VARIABLES
    (* the three remote sources and the arguments of the call *)
    ecdc_site,                  \* file date -> "ok" | "missing" | "down"
    ecdc_sheet,                 \* rows of the daily spreadsheet
    iso_page,                   \* first table of the ISO code page, or None
    regions_page,               \* third table of the regions page, or None
    arg_max_consecutive_dates,
    arg_walk_back,
    (* the interpreter process: the seed of its string hash, which fixes   *)
    (* the iteration order of its sets, and the entity codes whose turn of *)
    (* the densification loop raises inside the try block                  *)
    hash_seed,
    synthesis_faults,
    (* fields of the handler object *)
    covid_country_raw_data,
    covid_country_data_date,
    covid_country_data,
    iso_country_codes,
    iso_country_codes_dropped,
    regions_continents_data,
    (* position and locals of generate_country_level_dataset and of the     *)
    (* get_latest_ecdc_data call it makes                                   *)
    pc,
    as_at_date,
    max_consecutive_dates,
    resp,
    (* history: number of HTTP GETs issued for the primary feed in this    *)
    (* run, and how the last run ended                                     *)
    attempts,
    outcome,
    (* history: the file dates requested in this run, in order, and the    *)
    (* messages it has printed                                             *)
    requested,
    printed,
    (* the caching handler of the dashboard: its data folder, the date it  *)
    (* was constructed with, and the last call of one of its functions     *)
    data_folder,
    self_as_at_date,
    cached_call,
    (* the dashboard: the callback being served, the number of times it    *)
    (* has invoked generate_country_level_dataset, and how the last        *)
    (* callback ended                                                      *)
    callback,
    invocations,
    ui_result,
    (* the state feed, the state-code page and the state-level holder      *)
    usa_state_feed,
    usa_state_codes_page,
    covid_usa_state_data

vars == <<ecdc_site, ecdc_sheet, iso_page, regions_page, arg_max_consecutive_dates,
          arg_walk_back, covid_country_raw_data, covid_country_data_date,
          covid_country_data, iso_country_codes, iso_country_codes_dropped,
          regions_continents_data, pc, as_at_date, max_consecutive_dates, resp,
          attempts, outcome, hash_seed, synthesis_faults, requested, printed,
          data_folder, self_as_at_date, cached_call, callback, invocations, ui_result,
          usa_state_feed, usa_state_codes_page, covid_usa_state_data>>

-----------------------------------------------------------------------------
(* Bounds of the model *)

\* dates of the feed are the days 1..MaxDay
MaxDay == 3
\* the spreadsheet holds at most MaxRows rows
MaxRows == 3
\* max_consecutive_dates is drawn from 1..MaxAttempts
MaxAttempts == 3
\* the hash seed of the process is drawn from 0..MaxSeed
MaxSeed == 2

-----------------------------------------------------------------------------
(* Values *)

None == <<>>
Some(x) == <<x>>
IsNone(h) == h = <<>>
Get(h) == h[1]

NullStr == "<null>"

NaN == <<"nan", 0, 1>>
Inf == <<"inf", 0, 1>>
NegInf == <<"-inf", 0, 1>>

Abs(x) == IF x < 0 THEN -x ELSE x

RECURSIVE GCD(_, _)
GCD(a, b) == IF b = 0 THEN a ELSE GCD(b, a % b)

\* the float n/d, d # 0
Num(n, d) ==
    LET s == IF d < 0 THEN -1 ELSE 1
        g == GCD(Abs(n), Abs(d))
    IN  <<"num", (s * n) \div g, (s * d) \div g>>

IsNaN(x) == x[1] = "nan"
IsInfinite(x) == x[1] \in {"inf", "-inf"}

\* a / b on two integer cells (pandas true division)
IntDiv(a, b) ==
    IF b # 0 THEN Num(a, b)
    ELSE IF a > 0 THEN Inf
    ELSE IF a < 0 THEN NegInf
    ELSE NaN

\* a / p on an integer cell and a float cell holding a number or NaN
FloatDiv(a, p) ==
    IF IsNaN(p) THEN NaN ELSE IntDiv(a * p[3], p[2])

\* Series.fillna(0) on one cell
FillNa0(x) == IF IsNaN(x) THEN Num(0, 1) ELSE x

\* one cell of Series.pct_change(): cur / prev - 1
PctChange(prev, cur) ==
    IF prev = 0 THEN IntDiv(cur, 0) ELSE Num(cur - prev, prev)

\* code points of the characters that occur in display names
CharCode(c) ==
    CASE c = " " -> 32
      [] c = "A" -> 65
      [] c = "B" -> 66
      [] c = "C" -> 67
      [] c = "K" -> 75
      [] c = "T" -> 84
      [] c = "_" -> 95
      [] c = "a" -> 97
      [] c = "b" -> 98
      [] c = "c" -> 99
      [] c = "e" -> 101
      [] c = "i" -> 105
      [] c = "n" -> 110
      [] c = "o" -> 111
      [] c = "r" -> 114
      [] c = "s" -> 115
      [] c = "v" -> 118
      [] c = "w" -> 119

\* s < t on Python strings (lexicographic by code point)
RECURSIVE StrLess(_, _)
StrLess(s, t) ==
    IF t = <<>> THEN FALSE
    ELSE IF s = <<>> THEN TRUE
    ELSE IF CharCode(Head(s)) # CharCode(Head(t)) THEN CharCode(Head(s)) < CharCode(Head(t))
    ELSE StrLess(Tail(s), Tail(t))

\* str.replace("_", " ")
StrReplaceUnderscore(s) == [i \in 1..Len(s) |-> IF s[i] = "_" THEN " " ELSE s[i]]

\* record r with the fields of more added or overwritten
Ext(r, more) == more @@ r

RECURSIVE Flatten(_)
Flatten(ss) == IF ss = <<>> THEN <<>> ELSE Head(ss) \o Flatten(Tail(ss))

Min(S) == CHOOSE x \in S : \A y \in S : x <= y
Max(S) == CHOOSE x \in S : \A y \in S : x >= y

\* the elements of a finite set of integers in ascending order
RECURSIVE Ascending(_)
Ascending(S) == IF S = {} THEN <<>> ELSE <<Min(S)>> \o Ascending(S \ {Min(S)})

Column(df, col) == {df[i][col] : i \in 1..Len(df)}

Reverse(s) == [i \in 1..Len(s) |-> s[Len(s) + 1 - i]]

RECURSIVE Rotate(_, _)
Rotate(s, k) == IF k = 0 \/ s = <<>> THEN s ELSE Rotate(Tail(s) \o <<Head(s)>>, k - 1)

\* list(set(...)): the elements of a set of strings in the iteration order of
\* the process, which the seed of the string hash fixes; the seeds 0, 1, 2,
\* 3, ... give the ascending and the descending order and their rotations
SetOrder(S, seed) ==
    Rotate(IF seed % 2 = 1 THEN Reverse(Ascending(S)) ELSE Ascending(S), seed \div 2)

-----------------------------------------------------------------------------
(* create_country_level_dataset, stage by stage.  A raw-feed row carries   *)
(* date_rep, cases, deaths, country, alpha_2_code, alpha_3_code and        *)
(* population_2018; the day, month and year columns, which the first stage *)
(* drops, are not carried.                                                 *)

\* Series.unique(): the values in order of first appearance
RECURSIVE Unique(_)
Unique(s) ==
    IF s = <<>> THEN <<>>
    ELSE <<Head(s)>> \o Unique(SelectSeq(Tail(s), LAMBDA x : x # Head(s)))

\* faulty variant: the rows without code kept
FormatEcdcKeepingAll(df_ecdc) ==
    [i \in 1..Len(df_ecdc) |-> Ext(df_ecdc[i], [cum_cases |-> None, cum_deaths |-> None])]

\* "Format": copy, add the empty cumulative columns, drop rows without code
FormatEcdc(df_ecdc) ==
    SelectSeq([i \in 1..Len(df_ecdc) |->
                  Ext(df_ecdc[i], [cum_cases |-> None, cum_deaths |-> None])],
              LAMBDA r : r.alpha_3_code # NullStr)

\* pd.date_range(min, max): every day of the observed range, ascending
AllDates(df) ==
    LET lo == Min(Column(df, "date_rep"))
        hi == Max(Column(df, "date_rep"))
    IN  [i \in 1..(hi - lo + 1) |-> lo + i - 1]

\* codes of the code table that the raw feed (unfiltered) does not hold
MissingCountries(df_ecdc, df_iso) ==
    Column(df_iso, "alpha_3_code") \ Column(df_ecdc, "alpha_3_code")

DfCountry(df, alpha_3_code) ==
    SelectSeq(df, LAMBDA r : r.alpha_3_code = alpha_3_code)

\* zero rows for the dates the entity did not report, in the iteration
\* order of the set of those dates; static attributes are those of the
\* entity's first row
DfToAdd(df_country, all_dates, seed) ==
    LET dates_to_add == SetOrder({all_dates[i] : i \in 1..Len(all_dates)}
                                     \ Column(df_country, "date_rep"), seed)
        first == df_country[1]
    IN  [i \in 1..Len(dates_to_add) |->
            [date_rep |-> dates_to_add[i], cases |-> 0, deaths |-> 0,
             country |-> first.country, alpha_2_code |-> first.alpha_2_code,
             alpha_3_code |-> first.alpha_3_code,
             population_2018 |-> first.population_2018,
             cum_cases |-> NaN, cum_deaths |-> NaN]]

\* sort_values(by="date_rep")
RECURSIVE InsertByDate(_, _)
InsertByDate(sorted, r) ==
    IF sorted = <<>> THEN <<r>>
    ELSE IF r.date_rep < Head(sorted).date_rep THEN <<r>> \o sorted
    ELSE <<Head(sorted)>> \o InsertByDate(Tail(sorted), r)

RECURSIVE SortByDate(_)
SortByDate(df) ==
    IF df = <<>> THEN <<>>
    ELSE InsertByDate(SortByDate(SubSeq(df, 1, Len(df) - 1)), df[Len(df)])

RECURSIVE PrefixSum(_, _, _)
PrefixSum(df, col, i) == IF i = 0 THEN 0 ELSE PrefixSum(df, col, i - 1) + df[i][col]

\* faulty variant: the daily counts copied instead of accumulated
CumSumNotAccumulated(df) ==
    [i \in 1..Len(df) |->
        Ext(df[i], [cum_cases |-> df[i].cases, cum_deaths |-> df[i].deaths])]

\* cum_cases = cases.cumsum(), cum_deaths = deaths.cumsum()
CumSum(df) ==
    [i \in 1..Len(df) |->
        Ext(df[i], [cum_cases |-> PrefixSum(df, "cases", i),
                    cum_deaths |-> PrefixSum(df, "deaths", i)])]

\* faulty variant: the cumulative sums taken without sorting by date first
DfTempUnsorted(df, alpha_3_code, all_dates, seed) ==
    LET df_country == DfCountry(df, alpha_3_code)
    IN  CumSum(df_country \o DfToAdd(df_country, all_dates, seed))

\* the body of the loop over the entities of the feed
DfTemp(df, alpha_3_code, all_dates, seed) ==
    LET df_country == DfCountry(df, alpha_3_code)
    IN  CumSum(SortByDate(df_country \o DfToAdd(df_country, all_dates, seed)))

\* faulty variant: only the first entity of the feed is densified
FramesOfFirstEntity(df, all_dates, seed, faults) ==
    LET codes == SelectSeq(Unique([i \in 1..Len(df) |-> df[i].alpha_3_code]),
                           LAMBDA c : c \notin faults)
    IN  [i \in 1..Min({1, Len(codes)}) |-> DfTemp(df, codes[i], all_dates, seed)]

\* the loop over the entities of the feed: the frame of an entity is appended
\* as the last statement of the try block, so an entity whose turn raises
\* leaves no frame
Frames(df, all_dates, seed, faults) ==
    LET codes == SelectSeq(Unique([i \in 1..Len(df) |-> df[i].alpha_3_code]),
                           LAMBDA c : c \notin faults)
    IN  [i \in 1..Len(codes) |-> DfTemp(df, codes[i], all_dates, seed)]

\* what the except clause of the loop prints, one message per failed entity
IssuesPrinted(df_ecdc, faults) ==
    LET df == FormatEcdc(df_ecdc)
        codes == SelectSeq(Unique([i \in 1..Len(df) |-> df[i].alpha_3_code]),
                           LAMBDA c : c \in faults)
    IN  [i \in 1..Len(codes) |-> [msg |-> "Issue encountered", arg |-> codes[i]]]

\* the body of the loop over missing_countries: the zero run of one entity
DfMissing(df_iso, alpha_3_code, all_dates) ==
    LET iso == DfCountry(df_iso, alpha_3_code)[1]
    IN  [i \in 1..Len(all_dates) |->
            [date_rep |-> all_dates[i], cases |-> 0, deaths |-> 0,
             cum_cases |-> 0, cum_deaths |-> 0,
             alpha_2_code |-> iso.alpha_2_code, alpha_3_code |-> iso.alpha_3_code,
             country |-> iso.country_name, population_2018 |-> NaN]]

\* what the loop over missing_countries builds, one frame per missing entity
MissingFrames(df_iso, missing_countries, all_dates) ==
    LET codes == SelectSeq(Unique([i \in 1..Len(df_iso) |-> df_iso[i].alpha_3_code]),
                           LAMBDA c : c \in missing_countries)
    IN  [i \in 1..Len(codes) |-> DfMissing(df_iso, codes[i], all_dates)]

\* pd.concat(frames): the loop over missing_countries never appends its
\* df_missing to frames, so only the frames of the feed's entities are joined
ConcatFrames(frames, missing_frames) == Flatten(frames)

RowLess(a, b) ==
    \/ StrLess(a.country, b.country)
    \/ a.country = b.country /\ a.date_rep < b.date_rep

\* sort_values(by=["country", "date_rep"]) (multi-key sorts are stable)
RECURSIVE InsertByCountryDate(_, _)
InsertByCountryDate(sorted, r) ==
    IF sorted = <<>> THEN <<r>>
    ELSE IF RowLess(r, Head(sorted)) THEN <<r>> \o sorted
    ELSE <<Head(sorted)>> \o InsertByCountryDate(Tail(sorted), r)

RECURSIVE SortByCountryDate(_)
SortByCountryDate(df) ==
    IF df = <<>> THEN <<>>
    ELSE InsertByCountryDate(SortByCountryDate(SubSeq(df, 1, Len(df) - 1)), df[Len(df)])

\* mortality_rate = (cum_deaths / cum_cases).fillna(0)
MortalityRate(r) == FillNa0(IntDiv(r.cum_deaths, r.cum_cases))

\* the rows whose growth rate is set to NaN: the minimum date of the table,
\* and the cells equal to math.inf
GrowthMask(date_rep, min_date, v) == date_rep = min_date \/ v = Inf

\* "Add indicators" on the sorted table
AddIndicators(df) ==
    LET min_date == Min(Column(df, "date_rep"))
        growth(i, col) == IF i = 1 THEN NaN ELSE PctChange(df[i - 1][col], df[i][col])
        masked(i, v) == IF GrowthMask(df[i].date_rep, min_date, v) THEN NaN ELSE v
    IN  [i \in 1..Len(df) |->
            Ext(df[i],
                [mortality_rate |-> MortalityRate(df[i]),
                 fraction_infected |-> FloatDiv(df[i].cum_cases, df[i].population_2018),
                 fraction_deaths |-> FloatDiv(df[i].cum_deaths, df[i].population_2018),
                 infections_growth_rate |-> masked(i, growth(i, "cum_cases")),
                 deaths_growth_rate |-> masked(i, growth(i, "cum_deaths"))])]

\* merge(how="left", left_on="alpha_3_code", right_on="iso_alpha3_code")
MergeRegions(df, df_regions) ==
    Flatten([i \in 1..Len(df) |->
        LET m == SelectSeq(df_regions,
                           LAMBDA g : g.iso_alpha3_code = df[i].alpha_3_code)
        IN  IF m = <<>>
            THEN <<Ext(df[i], [region_1 |-> NullStr, region_2 |-> NullStr,
                               continent |-> NullStr])>>
            ELSE [j \in 1..Len(m) |->
                     Ext(df[i], [region_1 |-> m[j].region_1, region_2 |-> m[j].region_2,
                                 continent |-> m[j].continent])]])

Kosovo == <<"K", "o", "s", "o", "v", "o">>
Taiwan == <<"T", "a", "i", "w", "a", "n">>
Bonaire == <<"B", "o", "n", "a", "i", "r", "e">>

country_exceptions ==
    <<[country |-> Kosovo, continent |-> "Europe"],
      [country |-> Taiwan, continent |-> "Asia"],
      [country |-> Bonaire, continent |-> "South America"]>>

\* faulty variant: the exception fills a null continent only
ApplyExceptionsWhereNull(df) ==
    [i \in 1..Len(df) |->
        IF df[i].continent = NullStr
           /\ \E k \in 1..Len(country_exceptions) :
                  country_exceptions[k].country = df[i].country
        THEN LET k == CHOOSE k \in 1..Len(country_exceptions) :
                          country_exceptions[k].country = df[i].country
             IN  [df[i] EXCEPT !.continent = country_exceptions[k].continent]
        ELSE df[i]]

\* for ce in country_exceptions: df.loc[df["country"] == ce, "continent"] = ...
ApplyExceptions(df) ==
    [i \in 1..Len(df) |->
        IF \E k \in 1..Len(country_exceptions) : country_exceptions[k].country = df[i].country
        THEN LET k == CHOOSE k \in 1..Len(country_exceptions) :
                          country_exceptions[k].country = df[i].country
             IN  [df[i] EXCEPT !.continent = country_exceptions[k].continent]
        ELSE df[i]]

\* faulty variant: the display names left as the feed has them
ReplaceCountrySkipped(df) == df

\* df["country"] = df["country"].str.replace("_", " ")
ReplaceCountry(df) ==
    [i \in 1..Len(df) |-> [df[i] EXCEPT !.country = StrReplaceUnderscore(@)]]

\* "Merge regions/continents": join, then the exceptions, then the names
EnrichRegions(df, df_regions) ==
    ReplaceCountry(ApplyExceptions(MergeRegions(df, df_regions)))

\* faulty variant: the first stage formats df_ecdc itself, not a copy
InputsAfterCreateInPlace(df_ecdc, df_iso, df_regions) ==
    <<FormatEcdc(df_ecdc), df_iso, df_regions>>

\* the three arguments as create_country_level_dataset leaves them: every
\* in-place statement of the function (drop, astype, the new columns, dropna)
\* acts on df = df_ecdc.copy(), df_iso is only read by the selection of the
\* missing entities, and the merge builds a new frame from df_regions
InputsAfterCreate(df_ecdc, df_iso, df_regions) == <<df_ecdc, df_iso, df_regions>>

\* the safety check at the head of create_country_level_dataset
SafetyCheck(df_ecdc, df_iso, df_regions) ==
    ~(IsNone(df_ecdc) \/ IsNone(df_iso) \/ IsNone(df_regions))

\* pd.date_range on an empty date column and pd.concat of no frame raise
CreateRaises(df_ecdc, faults) ==
    \/ FormatEcdc(df_ecdc) = <<>>
    \/ Column(FormatEcdc(df_ecdc), "alpha_3_code") \subseteq faults

\* faulty variant: neither the frames of the entities nor the full table
\* sorted, the rows left in the order of the concatenations
PanelBeforeJoinUnsorted(df_ecdc, df_iso, seed, faults) ==
    LET df == FormatEcdc(df_ecdc)
        all_dates == AllDates(df)
        codes == SelectSeq(Unique([i \in 1..Len(df) |-> df[i].alpha_3_code]),
                           LAMBDA c : c \notin faults)
    IN  AddIndicators(Flatten([i \in 1..Len(codes) |->
                                  DfTempUnsorted(df, codes[i], all_dates, seed)]))

\* the table of create_country_level_dataset before "Merge regions/continents"
PanelBeforeJoin(df_ecdc, df_iso, seed, faults) ==
    LET df == FormatEcdc(df_ecdc)
        all_dates == AllDates(df)
        missing_countries == MissingCountries(df_ecdc, df_iso)
        frames == Frames(df, all_dates, seed, faults)
        missing_frames == MissingFrames(df_iso, missing_countries, all_dates)
        full == SortByCountryDate(ConcatFrames(frames, missing_frames))
    IN  AddIndicators(full)

\* the table create_country_level_dataset returns on three present inputs
CountryLevelDataset(df_ecdc, df_iso, df_regions, seed, faults) ==
    EnrichRegions(PanelBeforeJoin(df_ecdc, df_iso, seed, faults), df_regions)

\* create_country_level_dataset on optional inputs: None, or the table
create_country_level_dataset(df_ecdc, df_iso, df_regions, seed, faults) ==
    IF ~SafetyCheck(df_ecdc, df_iso, df_regions) THEN None
    ELSE Some(CountryLevelDataset(Get(df_ecdc), Get(df_iso), Get(df_regions), seed, faults))

-----------------------------------------------------------------------------
(* The three fetches *)

\* the file of a date outside the modelled window does not exist
SiteStatus(d) == IF d \in DOMAIN ecdc_site THEN ecdc_site[d] ELSE "missing"

\* resp.status_code of a GET that did not raise
StatusCode(d) == IF SiteStatus(d) = "ok" THEN 200 ELSE 404

\* faulty variant: the remaining-attempt test off by one
LoopConditionOffByOne(status_code, remaining) == status_code # 200 /\ remaining > 0

\* faulty variant: the loop entered once more when no attempt is left
LoopConditionAtZero(status_code, remaining) ==
    status_code # 200 /\ (remaining > 1 \/ remaining = 0)

\* "while resp.status_code != 200 and max_consecutive_dates > 1"
LoopCondition(status_code, remaining) == status_code # 200 /\ remaining > 1

\* faulty variant: the date stepped forward whatever the direction
StepDateForward(d, walk_back) == d + 1

\* as_at_date -= 1d when walking back, += 1d otherwise
StepDate(d, walk_back) == IF walk_back THEN d - 1 ELSE d + 1

\* str.len() of the codes that occur in the code tables
CodeLen(code) ==
    CASE code = "AAA" -> 3
      [] code = "BBB" -> 3
      [] code = "CCC" -> 3
      [] code = "XKX" -> 3
      [] code = "AAAA" -> 4
      [] code = "ZZ" -> 2

\* get_iso_country_codes_data on the page's table: the first row's
\* alpha_2_code is set to "AF", then the rows are split by code length
IsoFormatted(table) ==
    [i \in 1..Len(table) |->
        IF i = 1 THEN [table[i] EXCEPT !.alpha_2_code = "AF"] ELSE table[i]]

IsoKept(table) ==
    SelectSeq(IsoFormatted(table), LAMBDA r : CodeLen(r.alpha_3_code) = 3)

IsoDropped(table) ==
    SelectSeq(IsoFormatted(table), LAMBDA r : CodeLen(r.alpha_3_code) > 3)

\* get_regions_continents_data: the ordinal column dropped, headers renamed
RegionsFormatted(table) == table

\* faulty variant: the run stops only when all three inputs are None
IntegrityOKUnlessAllMissing(raw, iso, regions) ==
    ~(IsNone(raw) /\ IsNone(iso) /\ IsNone(regions))

\* integrity_check = [ds for ds in data_sets if ds is None]
integrity_check(raw, iso, regions) == SelectSeq(<<raw, iso, regions>>, IsNone)

\* "integrity_check = [ds for ds in data_sets if ds is None]" is empty
IntegrityOK(raw, iso, regions) == ~(IsNone(raw) \/ IsNone(iso) \/ IsNone(regions))

-----------------------------------------------------------------------------
(* Inputs: the content of the three sources *)

FeedCodes == <<"AAA", "XKX">>

A_a == <<"A", "_", "a">>

\* the codes of a feed in which two entities share one display name and some
\* rows carry no code
NamesakeCodes == <<"AAA", "AAB", NullStr>>

FeedCountry(code) == IF code \in {"AAA", "AAB"} THEN A_a ELSE Kosovo
FeedAlpha2(code) == IF code = "AAA" THEN "AA" ELSE IF code = "AAB" THEN "AB" ELSE "XK"
FeedPopulation(code) == IF code \in {"AAA", "AAB"} THEN Num(100, 1) ELSE Num(200, 1)

\* what one row may report: <<new cases, new deaths>>; corrections of earlier
\* reports are published as negative counts
Reports == {<<0, 0>>, <<1, 0>>, <<0, 1>>, <<-1, 0>>}

FeedRow(code, date, rep) ==
    [date_rep |-> date, cases |-> rep[1], deaths |-> rep[2],
     country |-> FeedCountry(code), alpha_2_code |-> FeedAlpha2(code),
     alpha_3_code |-> code, population_2018 |-> FeedPopulation(code)]

\* the (entity, date) cells in the order of the sheet: by entity, latest first
AllCells ==
    [i \in 1..(Len(FeedCodes) * MaxDay) |->
        <<FeedCodes[((i - 1) \div MaxDay) + 1], MaxDay - ((i - 1) % MaxDay)>>]

CellSet == {AllCells[i] : i \in 1..Len(AllCells)}

SheetOf(S, rep) ==
    LET picked == SelectSeq(AllCells, LAMBDA c : c \in S)
    IN  [i \in 1..Len(picked) |-> FeedRow(picked[i][1], picked[i][2], rep[picked[i]])]

\* the cells of a sheet of 1..MaxRows rows, one row at most per entity and date
CellChoices == {T \in SUBSET CellSet : Cardinality(T) \in 1..MaxRows}

\* the same for the feed of the namesake entities and the rows without code
NamesakeReports == {<<1, 0>>, <<2, 1>>}

NamesakeCells ==
    [i \in 1..(Len(NamesakeCodes) * MaxDay) |->
        <<NamesakeCodes[((i - 1) \div MaxDay) + 1], MaxDay - ((i - 1) % MaxDay)>>]

NamesakeSheetOf(S, rep) ==
    LET picked == SelectSeq(NamesakeCells, LAMBDA c : c \in S)
    IN  [i \in 1..Len(picked) |-> FeedRow(picked[i][1], picked[i][2], rep[picked[i]])]

NamesakeCellChoices ==
    {T \in SUBSET {NamesakeCells[i] : i \in 1..Len(NamesakeCells)} :
        Cardinality(T) \in 1..MaxRows}

\* entity A reporting 1, 0, 2 new cases on the days 1, 2, 3
ScenarioSheet ==
    <<FeedRow("AAA", 3, <<2, 0>>), FeedRow("AAA", 2, <<0, 0>>), FeedRow("AAA", 1, <<1, 0>>)>>

IsoRow(name, a2, a3) == [country_name |-> name, alpha_2_code |-> a2, alpha_3_code |-> a3]

IsoABC == <<IsoRow(<<"A">>, "AA", "AAA"), IsoRow(<<"B">>, "BB", "BBB"),
            IsoRow(<<"C">>, "CC", "CCC")>>

IsoAll == IsoABC \o <<IsoRow(Kosovo, "XK", "XKX"), IsoRow(<<"A", "A">>, "A4", "AAAA"),
                       IsoRow(<<"C", "C">>, "C2", "ZZ")>>

RegionRow(a3, r1, r2, cont) ==
    [iso_alpha3_code |-> a3, region_1 |-> r1, region_2 |-> r2, continent |-> cont]

RegionsScenario == <<RegionRow("AAA", "Southern Asia", NullStr, "Asia"),
                     RegionRow("BBB", "Western Europe", NullStr, "Europe")>>

RegionsKosovoAsia == RegionsScenario \o <<RegionRow("XKX", "Western Asia", NullStr, "Asia")>>

\* a region table that lists one code twice
RegionsDuplicate == RegionsScenario \o <<RegionRow("AAA", "Western Europe", NullStr, "Europe")>>

\* the dates around the reference date (day 0) whose files are modelled
Window == (1 - MaxAttempts)..(MaxAttempts - 1)

\* at most one date on which the transport fails
Sites ==
    {f \in [Window -> {"ok", "missing", "down"}] :
        Cardinality({d \in Window : f[d] = "down"}) <= 1}

-----------------------------------------------------------------------------
(* The handler *)

\* the data folder is empty, no callback is being served and no state-level
\* data is held
InitBeyond ==
    /\ data_folder = {}
    /\ self_as_at_date = 0
    /\ cached_call = None
    /\ callback = "none"
    /\ invocations = 0
    /\ ui_result = None
    /\ usa_state_feed = <<>>
    /\ usa_state_codes_page = <<>>
    /\ covid_usa_state_data = None

InitFields ==
    /\ covid_country_raw_data = None
    /\ covid_country_data_date = None
    /\ covid_country_data = None
    /\ iso_country_codes = None
    /\ iso_country_codes_dropped = None
    /\ regions_continents_data = None
    /\ pc = "idle"
    /\ as_at_date = 0
    /\ max_consecutive_dates = 0
    /\ resp = 0
    /\ attempts = 0
    /\ outcome = "none"
    /\ requested = <<>>
    /\ printed = <<>>

InitHandler == InitFields /\ InitBeyond

\* every availability of the sources and every call, on the scenario sheet
Init ==
    /\ ecdc_site \in Sites
    /\ ecdc_sheet = ScenarioSheet
    /\ \E pages \in {<<Some(IsoABC), Some(RegionsScenario)>>,
                       <<None, Some(RegionsScenario)>>, <<Some(IsoAll), None>>} :
           iso_page = pages[1] /\ regions_page = pages[2]
    /\ arg_max_consecutive_dates \in 1..MaxAttempts
    /\ arg_walk_back \in BOOLEAN
    /\ hash_seed = 0
    /\ synthesis_faults = {}
    /\ InitHandler

\* every sheet, with yesterday's file the latest one published
InitPanel ==
    /\ ecdc_site = [d \in Window |-> IF d = 0 THEN "missing" ELSE "ok"]
    /\ \E S \in CellChoices : \E rep \in [S -> Reports] : ecdc_sheet = SheetOf(S, rep)
    /\ \E pages \in {<<Some(IsoABC), Some(RegionsScenario)>>,
                       <<Some(IsoAll), Some(RegionsKosovoAsia)>>} :
           iso_page = pages[1] /\ regions_page = pages[2]
    /\ arg_max_consecutive_dates = 2
    /\ arg_walk_back = TRUE
    /\ hash_seed = 0
    /\ synthesis_faults = {}
    /\ InitHandler

\* every sheet of the namesake entities and of rows without code, with
\* yesterday's file the latest one published
InitFeed ==
    /\ ecdc_site = [d \in Window |-> IF d = 0 THEN "missing" ELSE "ok"]
    /\ \E S \in NamesakeCellChoices : \E rep \in [S -> NamesakeReports] :
           ecdc_sheet = NamesakeSheetOf(S, rep)
    /\ \E pages \in {<<Some(IsoABC), Some(RegionsScenario)>>,
                       <<Some(IsoABC), Some(RegionsDuplicate)>>} :
           iso_page = pages[1] /\ regions_page = pages[2]
    /\ arg_max_consecutive_dates = 2
    /\ arg_walk_back = TRUE
    /\ hash_seed = 0
    /\ synthesis_faults = {}
    /\ InitHandler

\* every sheet of two entities, the turn of one of them raising in the
\* densification loop
InitFault ==
    /\ ecdc_site = [d \in Window |-> IF d = 0 THEN "missing" ELSE "ok"]
    /\ \E S \in CellChoices : \E rep \in [S -> NamesakeReports] : ecdc_sheet = SheetOf(S, rep)
    /\ iso_page = Some(IsoAll)
    /\ regions_page = Some(RegionsScenario)
    /\ arg_max_consecutive_dates = 2
    /\ arg_walk_back = TRUE
    /\ hash_seed = 0
    /\ \E c \in {FeedCodes[i] : i \in 1..Len(FeedCodes)} : synthesis_faults = {c}
    /\ InitHandler

\* every sheet of two entities, in a process of any hash seed
InitSeed ==
    /\ ecdc_site = [d \in Window |-> IF d = 0 THEN "missing" ELSE "ok"]
    /\ \E S \in CellChoices : \E rep \in [S -> NamesakeReports] : ecdc_sheet = SheetOf(S, rep)
    /\ iso_page = Some(IsoAll)
    /\ regions_page = Some(RegionsScenario)
    /\ arg_max_consecutive_dates = 2
    /\ arg_walk_back = TRUE
    /\ hash_seed \in 0..MaxSeed
    /\ synthesis_faults = {}
    /\ InitHandler

sources == <<ecdc_site, ecdc_sheet, iso_page, regions_page, arg_max_consecutive_dates,
             arg_walk_back, hash_seed, synthesis_faults>>
disk == <<data_folder, self_as_at_date, cached_call>>
dash == <<callback, invocations, ui_result>>
usa == <<usa_state_feed, usa_state_codes_page, covid_usa_state_data>>
\* what a run of generate_country_level_dataset leaves alone
world == <<sources, disk, dash, usa>>
locals == <<as_at_date, max_consecutive_dates, resp>>
tables == <<iso_country_codes, iso_country_codes_dropped, regions_continents_data>>

\* an exception leaves generate_country_level_dataset
Raise ==
    /\ pc' = "idle"
    /\ outcome' = "raised"
    /\ as_at_date' = 0 /\ max_consecutive_dates' = 0 /\ resp' = 0

\* a printed line: the text that identifies the message, and its argument
Message(msg, arg) == [msg |-> msg, arg |-> arg]

\* generate_country_level_dataset is called; get_latest_ecdc_data makes its
\* first request inside try/except
GenerateCall ==
    /\ pc = "idle"
    /\ attempts' = 1
    /\ requested' = <<0>>
    /\ outcome' = "running"
    /\ IF SiteStatus(0) = "down"
       THEN /\ covid_country_raw_data' = None
            /\ printed' = <<Message("Invalid URL.", None)>>
            /\ pc' = "iso"
            /\ UNCHANGED locals
       ELSE /\ as_at_date' = 0
            /\ max_consecutive_dates' = arg_max_consecutive_dates
            /\ resp' = StatusCode(0)
            /\ printed' = <<>>
            /\ pc' = "loop"
            /\ UNCHANGED covid_country_raw_data
    /\ UNCHANGED <<sources, tables, covid_country_data, covid_country_data_date>>

\* a call of generate_country_level_dataset from outside the dashboard
Generate == GenerateCall /\ UNCHANGED <<disk, dash, usa>>

\* one turn of the loop: step the date, request again
Retry ==
    /\ pc = "loop"
    /\ LoopCondition(resp, max_consecutive_dates)
    /\ attempts' = attempts + 1
    /\ printed' = Append(printed, Message("File retrieval failed", as_at_date))
    /\ LET d == StepDate(as_at_date, arg_walk_back)
       IN  /\ requested' = Append(requested, d)
           /\ IF SiteStatus(d) = "down"
              THEN Raise
              ELSE /\ as_at_date' = d
                   /\ max_consecutive_dates' = max_consecutive_dates - 1
                   /\ resp' = StatusCode(d)
                   /\ UNCHANGED <<pc, outcome>>
    /\ UNCHANGED <<world, tables, covid_country_raw_data, covid_country_data,
                   covid_country_data_date>>

\* faulty variant: a failed retrieval leaves the feed of the run before
ReturnFeedKeepingOld ==
    /\ pc = "loop"
    /\ ~LoopCondition(resp, max_consecutive_dates)
    /\ IF resp # 200
       THEN /\ printed' = printed \o
                   <<Message("File retrieval failed", as_at_date),
                     Message("Maximum number of consecutive dates reached", None)>>
            /\ UNCHANGED <<covid_country_data_date, covid_country_raw_data>>
       ELSE /\ covid_country_data_date' = Some(as_at_date)
            /\ covid_country_raw_data' = Some(ecdc_sheet)
            /\ UNCHANGED printed
    /\ pc' = "iso"
    /\ as_at_date' = 0 /\ max_consecutive_dates' = 0 /\ resp' = 0
    /\ UNCHANGED <<world, tables, covid_country_data, attempts, outcome, requested>>

\* the loop is left: get_latest_ecdc_data returns None or the sheet
ReturnFeed ==
    /\ pc = "loop"
    /\ ~LoopCondition(resp, max_consecutive_dates)
    /\ IF resp # 200
       THEN /\ covid_country_raw_data' = None
            /\ printed' = printed \o
                   <<Message("File retrieval failed", as_at_date),
                     Message("Maximum number of consecutive dates reached", None)>>
            /\ UNCHANGED covid_country_data_date
       ELSE /\ covid_country_data_date' = Some(as_at_date)
            /\ covid_country_raw_data' = Some(ecdc_sheet)
            /\ UNCHANGED printed
    /\ pc' = "iso"
    /\ as_at_date' = 0 /\ max_consecutive_dates' = 0 /\ resp' = 0
    /\ UNCHANGED <<world, tables, covid_country_data, attempts, outcome, requested>>

FetchIso ==
    /\ pc = "iso"
    /\ IF IsNone(iso_page)
       THEN /\ Raise
            /\ UNCHANGED <<iso_country_codes, iso_country_codes_dropped>>
       ELSE /\ iso_country_codes' = Some(IsoKept(Get(iso_page)))
            /\ iso_country_codes_dropped' = Some(IsoDropped(Get(iso_page)))
            /\ pc' = "regions"
            /\ UNCHANGED <<locals, outcome>>
    /\ UNCHANGED <<world, regions_continents_data, covid_country_raw_data,
                   covid_country_data, covid_country_data_date, attempts, requested,
                   printed>>

FetchRegions ==
    /\ pc = "regions"
    /\ IF IsNone(regions_page)
       THEN /\ Raise
            /\ UNCHANGED regions_continents_data
       ELSE /\ regions_continents_data' = Some(RegionsFormatted(Get(regions_page)))
            /\ pc' = "check"
            /\ UNCHANGED <<locals, outcome>>
    /\ UNCHANGED <<world, iso_country_codes, iso_country_codes_dropped,
                   covid_country_raw_data, covid_country_data, covid_country_data_date,
                   attempts, requested, printed>>

\* "Check that all data is available"
IntegrityCheck ==
    /\ pc = "check"
    /\ IF IntegrityOK(covid_country_raw_data, iso_country_codes, regions_continents_data)
       THEN pc' = "create" /\ UNCHANGED <<outcome, printed>>
       ELSE /\ pc' = "idle"
            /\ outcome' = "aborted"
            /\ printed' = Append(printed,
                   Message("Unable to generate country-level dataset",
                           integrity_check(covid_country_raw_data, iso_country_codes,
                                           regions_continents_data)))
    /\ UNCHANGED <<world, tables, locals, covid_country_raw_data, covid_country_data,
                   covid_country_data_date, attempts, requested>>

\* self.covid_country_data = self.create_country_level_dataset(...)
Create ==
    /\ pc = "create"
    /\ IF ~SafetyCheck(covid_country_raw_data, iso_country_codes, regions_continents_data)
       THEN /\ covid_country_data' = None
            /\ printed' = Append(printed, Message("One or more DataFrame is missing", None))
            /\ pc' = "idle"
            /\ outcome' = "returned"
            /\ UNCHANGED <<locals, covid_country_raw_data, iso_country_codes,
                           regions_continents_data>>
       ELSE /\ printed' = printed \o IssuesPrinted(Get(covid_country_raw_data),
                                                  synthesis_faults)
            /\ LET after == InputsAfterCreate(Get(covid_country_raw_data),
                                Get(iso_country_codes), Get(regions_continents_data))
               IN  /\ covid_country_raw_data' = Some(after[1])
                   /\ iso_country_codes' = Some(after[2])
                   /\ regions_continents_data' = Some(after[3])
            /\ IF CreateRaises(Get(covid_country_raw_data), synthesis_faults)
               THEN /\ Raise
                    /\ UNCHANGED covid_country_data
               ELSE /\ covid_country_data' =
                           create_country_level_dataset(covid_country_raw_data,
                               iso_country_codes, regions_continents_data, hash_seed,
                               synthesis_faults)
                    /\ pc' = "idle"
                    /\ outcome' = "returned"
                    /\ UNCHANGED locals
    /\ UNCHANGED <<world, iso_country_codes_dropped, covid_country_data_date, attempts,
                   requested>>

Next ==
    \/ Generate
    \/ Retry
    \/ ReturnFeed
    \/ FetchIso
    \/ FetchRegions
    \/ IntegrityCheck
    \/ Create

Spec == Init /\ [][Next]_vars

SpecPanel == InitPanel /\ [][Next]_vars

SpecFeed == InitFeed /\ [][Next]_vars

SpecFault == InitFault /\ [][Next]_vars

SpecSeed == InitSeed /\ [][Next]_vars

\* every availability of the site and every integer max_consecutive_dates of
\* a small range around 0, the negative ones included
InitWalk ==
    /\ ecdc_site \in Sites
    /\ ecdc_sheet = ScenarioSheet
    /\ iso_page = Some(IsoABC)
    /\ regions_page = Some(RegionsScenario)
    /\ arg_max_consecutive_dates \in (1 - MaxAttempts)..MaxAttempts
    /\ arg_walk_back \in BOOLEAN
    /\ hash_seed = 0
    /\ synthesis_faults = {}
    /\ InitHandler

\* the interpreter runs the statement that follows: a turn of the loop that
\* can be taken is taken, and the function returns once the loop is left
SpecWalk == InitWalk /\ [][Next]_vars /\ WF_vars(Retry) /\ WF_vars(ReturnFeed)

\* the sites on which the files up to some date are published
RunSites ==
    {[d \in Window |-> IF d <= k THEN "ok" ELSE "missing"] :
        k \in (Min(Window) - 1)..Max(Window)}

\* the sources while the dashboard is up: the files published up to some
\* date, or a transport failure on the day before the reference date
DashSites ==
    RunSites \cup {[d \in Window |-> IF d = -1 THEN "down" ELSE "missing"]}

RunSheets == {ScenarioSheet, <<FeedRow("XKX", 1, <<1, 0>>)>>}

RunPages == {<<Some(IsoABC), Some(RegionsScenario)>>,
             <<Some(IsoAll), Some(RegionsKosovoAsia)>>}

\* one handler that is run again and again while the sources change
InitRuns ==
    /\ ecdc_site \in RunSites
    /\ ecdc_sheet \in RunSheets
    /\ \E pages \in RunPages : iso_page = pages[1] /\ regions_page = pages[2]
    /\ arg_max_consecutive_dates = 2
    /\ arg_walk_back = TRUE
    /\ hash_seed = 0
    /\ synthesis_faults = {}
    /\ InitHandler

\* between two runs the publisher adds or withdraws files and the pages are
\* edited
SourcesChange ==
    /\ pc = "idle"
    /\ ecdc_site' \in RunSites
    /\ ecdc_sheet' \in RunSheets
    /\ \E pages \in RunPages : iso_page' = pages[1] /\ regions_page' = pages[2]
    /\ UNCHANGED <<arg_max_consecutive_dates, arg_walk_back, hash_seed, synthesis_faults,
                   disk, dash, usa, tables, locals, covid_country_raw_data,
                   covid_country_data, covid_country_data_date, pc, attempts, outcome,
                   requested, printed>>

NextRuns == Next \/ SourcesChange

SpecRuns == InitRuns /\ [][NextRuns]_vars

-----------------------------------------------------------------------------
(* get_latest_ecdc_data as one call, in the variant without cache: the     *)
(* requests it makes and how it ends                                       *)

\* the loop and the test after it, entered after a request for date d that
\* did not raise
RECURSIVE Walk(_, _, _, _)
Walk(d, remaining, walk_back, req) ==
    IF LoopCondition(StatusCode(d), remaining)
    THEN LET e == StepDate(d, walk_back)
         IN  IF SiteStatus(e) = "down"
             THEN [requested |-> Append(req, e), end |-> "raised", date |-> e]
             ELSE Walk(e, remaining - 1, walk_back, Append(req, e))
    ELSE [requested |-> req, date |-> d,
          end |-> IF StatusCode(d) = 200 THEN "found" ELSE "none"]

\* the first request is inside try/except: a transport error returns None
get_latest_ecdc_data(ref, n, walk_back) ==
    IF SiteStatus(ref) = "down"
    THEN [requested |-> <<ref>>, end |-> "none", date |-> ref]
    ELSE Walk(ref, n, walk_back, <<ref>>)

-----------------------------------------------------------------------------
(* The caching handler of the dashboard.  A file of the data folder is a   *)
(* name and a content; a name is a list of characters, the date of the     *)
(* handler standing as one character before the first "_".  A content is   *)
(* the table written, with the reference date of the run that wrote it.    *)

\* "ecdc_data.csv"
KindEcdc ==
    <<"e", "c", "d", "c", "_", "d", "a", "t", "a", ".", "c", "s", "v">>

\* "iso_country_codes.csv"
KindIso ==
    <<"i", "s", "o", "_", "c", "o", "u", "n", "t", "r", "y", "_", "c", "o",
      "d", "e", "s", ".", "c", "s", "v">>

\* "regions_continents.csv"
KindRegions ==
    <<"r", "e", "g", "i", "o", "n", "s", "_", "c", "o", "n", "t", "i", "n",
      "e", "n", "t", "s", ".", "c", "s", "v">>

\* "country_level_dataset.csv"
KindCountry ==
    <<"c", "o", "u", "n", "t", "r", "y", "_", "l", "e", "v", "e", "l", "_",
      "d", "a", "t", "a", "s", "e", "t", ".", "c", "s", "v">>

\* "usa_state_level_dataset.csv"
KindUsaState ==
    <<"u", "s", "a", "_", "s", "t", "a", "t", "e", "_", "l", "e", "v", "e",
      "l", "_", "d", "a", "t", "a", "s", "e", "t", ".", "c", "s", "v">>

\* "usa_county_level_dataset.csv"
KindUsaCounty ==
    <<"u", "s", "a", "_", "c", "o", "u", "n", "t", "y", "_", "l", "e", "v",
      "e", "l", "_", "d", "a", "t", "a", "s", "e", "t", ".", "c", "s", "v">>

Kinds == {KindEcdc, KindIso, KindRegions, KindCountry, KindUsaState, KindUsaCounty}

\* "{:%Y%m%d}_<kind>".format(self.as_at_date)
FileName(date, kind) == <<ToString(date), "_">> \o kind

\* file_name.split("_", 1)[-1]: what follows the first "_"
KindSuffix(file_name) ==
    LET i == CHOOSE i \in 1..Len(file_name) :
                 file_name[i] = "_" /\ \A j \in 1..(i - 1) : file_name[j] # "_"
    IN  SubSeq(file_name, i + 1, Len(file_name))

\* "suffix in f": the suffix is a substring of the name
OccursIn(suffix, f) ==
    \E i \in 0..(Len(f) - Len(suffix)) : SubSeq(f, i + 1, i + Len(suffix)) = suffix

FileExists(folder, file_name) == \E f \in folder : f.name = file_name

\* pd.read_csv(file_path)
ReadFile(folder, file_name) == (CHOOSE f \in folder : f.name = file_name).content

\* faulty variant: the file written, no older file removed
export_only(folder, df, file_name) ==
    {f \in folder : f.name # file_name} \cup {[name |-> file_name, content |-> df]}

\* _export_and_clean: the file is written (over a file of the same name),
\* then every other file whose name contains the kind suffix is removed
export_and_clean(folder, df, file_name) ==
    LET written == {f \in folder : f.name # file_name}
                       \cup {[name |-> file_name, content |-> df]}
        old_files == {f \in written :
                         OccursIn(KindSuffix(file_name), f.name) /\ f.name # file_name}
    IN  written \ old_files

\* faulty variant: one more turn of the loop than the other variant takes
RECURSIVE DashWalkOffByOne(_, _, _, _)
DashWalkOffByOne(d, remaining, walk_back, req) ==
    IF StatusCode(d) # 200 /\ remaining > 0
    THEN LET e == IF walk_back THEN d - 1 ELSE d + 1
         IN  IF SiteStatus(e) = "down"
             THEN [requested |-> Append(req, e), end |-> "raised", date |-> e]
             ELSE DashWalkOffByOne(e, remaining - 1, walk_back, Append(req, e))
    ELSE [requested |-> req, date |-> d,
          end |-> IF StatusCode(d) = 200 THEN "found" ELSE "none"]

\* the loop of the caching get_latest_ecdc_data
RECURSIVE DashWalk(_, _, _, _)
DashWalk(d, remaining, walk_back, req) ==
    IF StatusCode(d) # 200 /\ remaining > 1
    THEN LET e == IF walk_back THEN d - 1 ELSE d + 1
         IN  IF SiteStatus(e) = "down"
             THEN [requested |-> Append(req, e), end |-> "raised", date |-> e]
             ELSE DashWalk(e, remaining - 1, walk_back, Append(req, e))
    ELSE [requested |-> req, date |-> d,
          end |-> IF StatusCode(d) = 200 THEN "found" ELSE "none"]

\* the caching get_latest_ecdc_data: the file named after self.as_at_date is
\* returned when it exists; otherwise the walk starts at the as_at_date
\* argument, or at self.as_at_date without one, and the sheet found is
\* written under the name made from self.as_at_date
dash_get_latest_ecdc_data(folder, self_date, arg_date, n, walk_back) ==
    LET file_name == FileName(self_date, KindEcdc)
        ref == IF IsNone(arg_date) THEN self_date ELSE Get(arg_date)
    IN  IF FileExists(folder, file_name)
        THEN [ref |-> ref, requested |-> <<>>, end |-> "file", date |-> ref,
              result |-> Some(ReadFile(folder, file_name)), folder |-> folder]
        ELSE LET w == IF SiteStatus(ref) = "down"
                      THEN [requested |-> <<ref>>, end |-> "none", date |-> ref]
                      ELSE DashWalk(ref, n, walk_back, <<ref>>)
                 df == [rows |-> ecdc_sheet, file_date |-> w.date, written_for |-> ref]
             IN  IF w.end = "found"
                 THEN [ref |-> ref, requested |-> w.requested, end |-> "found",
                       date |-> w.date, result |-> Some(df),
                       folder |-> export_and_clean(folder, df, file_name)]
                 ELSE [ref |-> ref, requested |-> w.requested, end |-> w.end,
                       date |-> w.date, result |-> None, folder |-> folder]

\* the caching get_iso_country_codes_data on the table of the page
dash_get_iso_country_codes_data(folder, self_date, page) ==
    LET file_name == FileName(self_date, KindIso)
        df == [rows |-> IsoKept(Get(page)), written_for |-> self_date]
    IN  IF FileExists(folder, file_name)
        THEN [end |-> "file", result |-> Some(ReadFile(folder, file_name)),
              folder |-> folder]
        ELSE IF IsNone(page)
        THEN [end |-> "raised", result |-> None, folder |-> folder]
        ELSE [end |-> "found", result |-> Some(df),
              folder |-> export_and_clean(folder, df, file_name)]

\* the caching create_country_level_dataset: the safety check, the file
\* named after self.as_at_date when it exists, the assembly otherwise
dash_create_country_level_dataset(folder, self_date, df_ecdc, df_iso, df_regions, seed, faults) ==
    LET file_name == FileName(self_date, KindCountry)
    IN  IF IsNone(df_ecdc) \/ IsNone(df_iso) \/ IsNone(df_regions)
        THEN [end |-> "none", result |-> None, folder |-> folder]
        ELSE IF FileExists(folder, file_name)
        THEN [end |-> "file", result |-> Some(ReadFile(folder, file_name)),
              folder |-> folder]
        ELSE IF CreateRaises(Get(df_ecdc), faults)
        THEN [end |-> "raised", result |-> None, folder |-> folder]
        ELSE LET df == [rows |-> CountryLevelDataset(Get(df_ecdc), Get(df_iso),
                                     Get(df_regions), seed, faults),
                        written_for |-> self_date]
             IN  [end |-> "assembled", result |-> Some(df),
                  folder |-> export_and_clean(folder, df, file_name)]

\* the dates a handler is constructed with and a call is made for
CacheDates == 0..1

held == <<tables, locals, covid_country_raw_data, covid_country_data, pc, attempts,
          outcome, requested, printed>>

\* a new process constructs a handler; the data folder stays
NewHandler(d) ==
    /\ self_as_at_date' = d
    /\ cached_call' = None
    /\ covid_country_data_date' = None
    /\ UNCHANGED <<data_folder, sources, dash, usa, held>>

\* a call of get_latest_ecdc_data with or without the as_at_date argument
GetLatestEcdcData(arg_date) ==
    LET r == dash_get_latest_ecdc_data(data_folder, self_as_at_date, arg_date,
                                       arg_max_consecutive_dates, arg_walk_back)
    IN  /\ data_folder' = r.folder
        /\ cached_call' =
               Some([fn |-> "get_latest_ecdc_data", ref |-> r.ref, arg |-> arg_date,
                     no_file |-> r.end # "file", requested |-> r.requested,
                     end |-> r.end, result |-> r.result])
        /\ covid_country_data_date' =
               IF r.end = "found" THEN Some(r.date) ELSE covid_country_data_date
        /\ UNCHANGED <<self_as_at_date, sources, dash, usa, held>>

GetIsoCountryCodesData ==
    LET r == dash_get_iso_country_codes_data(data_folder, self_as_at_date, iso_page)
    IN  /\ data_folder' = r.folder
        /\ cached_call' =
               Some([fn |-> "get_iso_country_codes_data", ref |-> self_as_at_date,
                     arg |-> None,
                     no_file |-> r.end # "file", requested |-> <<>>,
                     end |-> r.end, result |-> r.result])
        /\ UNCHANGED <<self_as_at_date, covid_country_data_date, sources, dash, usa,
                       held>>

\* a call of create_country_level_dataset on the sheet and the two tables, or
\* without the raw feed
CreateCountryLevelDataset(df_ecdc) ==
    LET r == dash_create_country_level_dataset(data_folder, self_as_at_date, df_ecdc,
                 Some(IsoKept(Get(iso_page))), Some(RegionsFormatted(Get(regions_page))),
                 hash_seed, synthesis_faults)
    IN  /\ data_folder' = r.folder
        /\ cached_call' =
               Some([fn |-> "create_country_level_dataset", ref |-> self_as_at_date,
                     arg |-> df_ecdc,
                     no_file |-> r.end # "file", requested |-> <<>>,
                     end |-> r.end, result |-> r.result])
        /\ UNCHANGED <<self_as_at_date, covid_country_data_date, sources, dash, usa,
                       held>>

\* the files published up to some date, one sheet, both pages
InitCache ==
    /\ ecdc_site \in RunSites
    /\ ecdc_sheet = ScenarioSheet
    /\ iso_page = Some(IsoABC)
    /\ regions_page = Some(RegionsScenario)
    /\ arg_max_consecutive_dates = 2
    /\ arg_walk_back = TRUE
    /\ hash_seed = 0
    /\ synthesis_faults = {}
    /\ InitHandler

NextCache ==
    \/ \E d \in CacheDates : NewHandler(d)
    \/ \E arg_date \in {None} \cup {Some(d) : d \in CacheDates} :
           GetLatestEcdcData(arg_date)
    \/ GetIsoCountryCodesData
    \/ \E df_ecdc \in {None, Some(ecdc_sheet)} : CreateCountryLevelDataset(df_ecdc)

SpecCache == InitCache /\ [][NextCache]_vars

\* every sheet of MaxRows rows in which the first entity reports on day 1,
\* every max_consecutive_dates and both directions, on a handler whose data
\* folder is empty
InitVariants ==
    /\ ecdc_site \in DashSites
    /\ \E S \in {T \in CellChoices :
                    Cardinality(T) = MaxRows /\ <<FeedCodes[1], 1>> \in T} :
           ecdc_sheet = SheetOf(S, [c \in S |-> <<1, 0>>])
    /\ iso_page = Some(IsoAll)
    /\ regions_page = Some(RegionsKosovoAsia)
    /\ arg_max_consecutive_dates \in 1..MaxAttempts
    /\ arg_walk_back \in BOOLEAN
    /\ hash_seed = 0
    /\ synthesis_faults = {}
    /\ InitHandler

NextVariants ==
    \/ \E arg_date \in {None} \cup {Some(d) : d \in CacheDates} :
           GetLatestEcdcData(arg_date)
    \/ \E df_ecdc \in {None, Some(ecdc_sheet)} : CreateCountryLevelDataset(df_ecdc)

SpecVariants == InitVariants /\ [][NextVariants]_vars

-----------------------------------------------------------------------------
(* generate_usa_state_data.  A row of the state feed carries date, state,  *)
(* fips and the cumulative counts cases and deaths; a row of the state-code *)
(* page carries name, postal_code and fips.                                *)

\* astype(int).astype(str).str.zfill(2): the two digits of a code below 100
Zfill2(n) == <<n \div 10, n % 10>>

FipsValue(fips) == fips[1] * 10 + fips[2]

\* the feed as read: fips padded, cases and deaths renamed to cum_cases and
\* cum_deaths
UsaRead(feed) ==
    [i \in 1..Len(feed) |->
        [date |-> feed[i].date, state |-> feed[i].state, fips |-> Zfill2(feed[i].fips),
         cum_cases |-> Num(feed[i].cases, 1), cum_deaths |-> Num(feed[i].deaths, 1)]]

\* pd.date_range(min, max) of the column date
UsaAllDates(df) ==
    LET lo == Min(Column(df, "date"))
        hi == Max(Column(df, "date"))
    IN  [i \in 1..(hi - lo + 1) |-> lo + i - 1]

\* the rows of the dates the state did not report, in the iteration order of
\* the set of those dates: state and fips of the state's first row, the
\* cumulative columns empty
UsaDfToAdd(df_state, all_dates, seed) ==
    LET dates_to_add == SetOrder({all_dates[i] : i \in 1..Len(all_dates)}
                                     \ Column(df_state, "date"), seed)
    IN  [i \in 1..Len(dates_to_add) |->
            [date |-> dates_to_add[i], state |-> df_state[1].state,
             fips |-> df_state[1].fips, cum_cases |-> NaN, cum_deaths |-> NaN]]

\* sort_values(by="date")
RECURSIVE UsaInsertByDate(_, _)
UsaInsertByDate(sorted, r) ==
    IF sorted = <<>> THEN <<r>>
    ELSE IF r.date < Head(sorted).date THEN <<r>> \o sorted
    ELSE <<Head(sorted)>> \o UsaInsertByDate(Tail(sorted), r)

RECURSIVE UsaSortByDate(_)
UsaSortByDate(df) ==
    IF df = <<>> THEN <<>>
    ELSE UsaInsertByDate(UsaSortByDate(SubSeq(df, 1, Len(df) - 1)), df[Len(df)])

\* fillna(method="ffill") on a column: an empty cell takes the last value
\* above it, if any
RECURSIVE Ffill(_, _)
Ffill(cells, last) ==
    IF cells = <<>> THEN <<>>
    ELSE LET v == IF IsNaN(Head(cells)) THEN last ELSE Head(cells)
         IN  <<v>> \o Ffill(Tail(cells), v)

\* faulty variant: the empty cells set to 0 without the forward fill
FillZeroOnly(cells) == [i \in 1..Len(cells) |-> FillNa0(cells[i])]

\* fillna(method="ffill") then fillna(0)
FfillThenZero(cells) ==
    LET filled == Ffill(cells, NaN)
    IN  [i \in 1..Len(cells) |-> FillNa0(filled[i])]

\* diff().fillna(0) on a column without empty cell
Diff(cells) ==
    [i \in 1..Len(cells) |->
        IF i = 1 THEN Num(0, 1) ELSE Num(cells[i][2] - cells[i - 1][2], 1)]

\* one turn of the loop over df["state"].unique()
UsaDfStateNew(df, state, all_dates, seed) ==
    LET df_state == SelectSeq(df, LAMBDA r : r.state = state)
        sorted == UsaSortByDate(df_state \o UsaDfToAdd(df_state, all_dates, seed))
        cum_cases == FfillThenZero([i \in 1..Len(sorted) |-> sorted[i].cum_cases])
        cum_deaths == FfillThenZero([i \in 1..Len(sorted) |-> sorted[i].cum_deaths])
    IN  [i \in 1..Len(sorted) |->
            Ext(sorted[i], [cum_cases |-> cum_cases[i], cum_deaths |-> cum_deaths[i],
                            cases |-> Diff(cum_cases)[i],
                            deaths |-> Diff(cum_deaths)[i]])]

\* the table of the page without its last row, postal_code renamed, fips
\* padded
UsaStateCodes(page) ==
    [i \in 1..(Len(page) - 1) |->
        [name |-> page[i].name, alpha_code |-> page[i].postal_code,
         fips |-> Zfill2(page[i].fips)]]

\* the frames of the states of the code table whose fips the feed lacks, in
\* the iteration order of the set missing_fips
UsaMissingFrames(df, df_state_codes, all_dates, seed) ==
    LET missing_fips ==
            SetOrder({FipsValue(f) :
                         f \in Column(df_state_codes, "fips") \ Column(df, "fips")}, seed)
    IN  [k \in 1..Len(missing_fips) |->
            LET fips == Zfill2(missing_fips[k])
                named == SelectSeq(df_state_codes, LAMBDA c : c.fips = fips)
            IN  [i \in 1..Len(all_dates) |->
                    [date |-> all_dates[i], state |-> named[1].name, fips |-> fips,
                     cum_cases |-> Num(0, 1), cum_deaths |-> Num(0, 1),
                     cases |-> Num(0, 1), deaths |-> Num(0, 1)]]]

\* sort_values(by=["state", "date"])
UsaRowLess(a, b) ==
    \/ StrLess(a.state, b.state)
    \/ a.state = b.state /\ a.date < b.date

RECURSIVE UsaInsertByStateDate(_, _)
UsaInsertByStateDate(sorted, r) ==
    IF sorted = <<>> THEN <<r>>
    ELSE IF UsaRowLess(r, Head(sorted)) THEN <<r>> \o sorted
    ELSE <<Head(sorted)>> \o UsaInsertByStateDate(Tail(sorted), r)

RECURSIVE UsaSortByStateDate(_)
UsaSortByStateDate(df) ==
    IF df = <<>> THEN <<>>
    ELSE UsaInsertByStateDate(UsaSortByStateDate(SubSeq(df, 1, Len(df) - 1)),
                              df[Len(df)])

\* merge(df_state_codes[["fips", "alpha_code"]], how="left", on fips)
UsaMergeCodes(df, df_state_codes) ==
    Flatten([i \in 1..Len(df) |->
        LET m == SelectSeq(df_state_codes, LAMBDA c : c.fips = df[i].fips)
        IN  IF m = <<>> THEN <<Ext(df[i], [alpha_code |-> NullStr])>>
            ELSE [j \in 1..Len(m) |-> Ext(df[i], [alpha_code |-> m[j].alpha_code])]])

\* the table generate_usa_state_data assembles when no file of the day exists
UsaStateDataset(feed, page, seed) ==
    LET df == UsaRead(feed)
        all_dates == UsaAllDates(df)
        states == Unique([i \in 1..Len(df) |-> df[i].state])
        frames == [i \in 1..Len(states) |-> UsaDfStateNew(df, states[i], all_dates, seed)]
        df_state_codes == UsaStateCodes(page)
        all_frames == frames \o UsaMissingFrames(df, df_state_codes, all_dates, seed)
    IN  UsaMergeCodes(UsaSortByStateDate(Flatten(all_frames)), df_state_codes)

\* generate_usa_state_data: the file named after self.as_at_date when it
\* exists, the assembly otherwise
generate_usa_state_data(folder, self_date, feed, page, seed) ==
    LET file_name == FileName(self_date, KindUsaState)
        df == [rows |-> UsaStateDataset(feed, page, seed), written_for |-> self_date]
    IN  IF FileExists(folder, file_name)
        THEN [end |-> "file", result |-> Some(ReadFile(folder, file_name)),
              folder |-> folder]
        ELSE [end |-> "assembled", result |-> Some(df),
              folder |-> export_and_clean(folder, df, file_name)]

\* self.covid_usa_state_data = self.generate_usa_state_data()
GenerateUsaStateData ==
    LET r == generate_usa_state_data(data_folder, self_as_at_date, usa_state_feed,
                                     usa_state_codes_page, hash_seed)
    IN  /\ data_folder' = r.folder
        /\ covid_usa_state_data' = Some(Get(r.result).rows)
        /\ cached_call' =
               Some([fn |-> "generate_usa_state_data", ref |-> self_as_at_date,
                     arg |-> None, no_file |-> r.end # "file", requested |-> <<>>,
                     end |-> r.end, result |-> r.result])
        /\ UNCHANGED <<self_as_at_date, usa_state_feed, usa_state_codes_page,
                       covid_country_data_date, sources, dash, held>>

UsaStates == <<<<"A">>, <<"B">>>>

\* the (state, date) cells in the order of the feed: by date, then by state
UsaCells ==
    [i \in 1..(Len(UsaStates) * MaxDay) |->
        <<((i - 1) % Len(UsaStates)) + 1, ((i - 1) \div Len(UsaStates)) + 1>>]

\* what one row may report: <<cumulative cases, cumulative deaths>>
UsaReports == {<<1, 0>>, <<2, 1>>}

UsaFeedOf(S, rep) ==
    LET picked == SelectSeq(UsaCells, LAMBDA c : c \in S)
    IN  [i \in 1..Len(picked) |->
            [date |-> picked[i][2], state |-> UsaStates[picked[i][1]],
             fips |-> picked[i][1], cases |-> rep[picked[i]][1],
             deaths |-> rep[picked[i]][2]]]

UsaCodeRow(name, postal_code, fips) ==
    [name |-> name, postal_code |-> postal_code, fips |-> fips]

\* the last row of the table of the page is not a state
UsaFooter == UsaCodeRow(<<"T">>, NullStr, 0)

UsaPages ==
    {<<UsaCodeRow(<<"A">>, "AA", 1), UsaCodeRow(<<"C">>, "CC", 3), UsaFooter>>,
     <<UsaCodeRow(<<"A">>, "AA", 1), UsaCodeRow(<<"B">>, "BB", 2),
       UsaCodeRow(<<"C">>, "CC", 3), UsaCodeRow(<<"A", "A">>, "AB", 12), UsaFooter>>}

\* every feed of up to MaxRows rows over two states, one row at most per
\* state and date, in a process of any hash seed
InitUsa ==
    /\ InitFields
    /\ ecdc_site = [d \in Window |-> "missing"]
    /\ ecdc_sheet = ScenarioSheet
    /\ iso_page = Some(IsoABC)
    /\ regions_page = Some(RegionsScenario)
    /\ arg_max_consecutive_dates = 1
    /\ arg_walk_back = TRUE
    /\ hash_seed \in 0..MaxSeed
    /\ synthesis_faults = {}
    /\ data_folder = {}
    /\ self_as_at_date = 0
    /\ cached_call = None
    /\ callback = "none"
    /\ invocations = 0
    /\ ui_result = None
    /\ \E S \in {T \in SUBSET {UsaCells[i] : i \in 1..Len(UsaCells)} :
                    Cardinality(T) \in 1..MaxRows} :
           \E rep \in [S -> UsaReports] : usa_state_feed = UsaFeedOf(S, rep)
    /\ usa_state_codes_page \in UsaPages
    /\ covid_usa_state_data = None

NextUsa == GenerateUsaStateData

SpecUsa == InitUsa /\ [][NextUsa]_vars

-----------------------------------------------------------------------------
(* The dashboard: the callbacks of app.py around the one handler cdh.  A   *)
(* callback is served from its first statement to its return before the    *)
(* next one begins; the run it invokes is the run modelled above.          *)

Callbacks == {"update_map", "update_bar", "update_scatter", "serve_table",
              "refresh_data", "download_csv"}

\* the callbacks that begin with
\* "if cdh.covid_country_data is None: cdh.generate_country_level_dataset()"
Guarded == {"update_map", "update_bar", "update_scatter", "serve_table"}

\* faulty variant: every callback that can invoke the assembly does so
InvokesUnguarded(cb, panel) == cb \in Guarded \cup {"refresh_data"}

\* whether the callback calls generate_country_level_dataset: refresh_data
\* always, download_csv never, the others when no panel is held
Invokes(cb, panel) == cb = "refresh_data" \/ (cb \in Guarded /\ IsNone(panel))

\* how the callback ends.  An exception of the run it invoked leaves the
\* callback; otherwise every callback dereferences the panel:
\* cdh.covid_country_data["date_rep"] in refresh_data, .columns in
\* serve_table, .to_csv in download_csv, and self.df_country.copy() in the
\* chart generator, all of which raise on None
CallbackResult(cb, invoked, run_outcome, panel) ==
    IF invoked /\ run_outcome = "raised" THEN "error"
    ELSE IF IsNone(panel) THEN "error"
    ELSE "ok"

run == <<tables, locals, covid_country_raw_data, covid_country_data,
         covid_country_data_date, pc, attempts, outcome, requested, printed>>

\* a UI event arrives and the first statements of its callback are executed
BeginCallback(cb) ==
    /\ callback = "none"
    /\ pc = "idle"
    /\ callback' = cb
    /\ IF Invokes(cb, covid_country_data)
       THEN GenerateCall /\ invocations' = 1
       ELSE invocations' = 0 /\ UNCHANGED <<sources, run>>
    /\ UNCHANGED <<ui_result, disk, usa>>

\* the run, if any, is over: the rest of the callback is executed
EndCallback ==
    /\ callback # "none"
    /\ pc = "idle"
    /\ ui_result' = Some([of |-> callback,
                          result |-> CallbackResult(callback, invocations = 1, outcome,
                                                    covid_country_data)])
    /\ callback' = "none"
    /\ UNCHANGED <<invocations, sources, run, disk, usa>>

\* the callbacks call generate_country_level_dataset without arguments: the
\* walk goes back, over the largest number of dates
InitDash ==
    /\ ecdc_site \in DashSites
    /\ ecdc_sheet \in RunSheets
    /\ \E pages \in RunPages : iso_page = pages[1] /\ regions_page = pages[2]
    /\ arg_max_consecutive_dates = MaxAttempts
    /\ arg_walk_back = TRUE
    /\ hash_seed = 0
    /\ synthesis_faults = {}
    /\ InitHandler

NextDash ==
    \/ \E cb \in Callbacks : BeginCallback(cb)
    \/ Retry
    \/ ReturnFeed
    \/ FetchIso
    \/ FetchRegions
    \/ IntegrityCheck
    \/ Create
    \/ EndCallback
    \/ SourcesChange

SpecDash == InitDash /\ [][NextDash]_vars

-----------------------------------------------------------------------------
(* Properties *)

\* generate_country_level_dataset has returned with an assembled panel
Returned == pc = "idle" /\ outcome = "returned" /\ ~IsNone(covid_country_data)

Panel == Get(covid_country_data)
RawRows == Get(covid_country_raw_data)
IsoRows == Get(iso_country_codes)
RegionRows == Get(regions_continents_data)

\* the dates of [min(date_rep), max(date_rep)] of the raw feed
RawDateRange == Min(Column(RawRows, "date_rep"))..Max(Column(RawRows, "date_rep"))

\* the indices of the panel rows of one (entity, date) pair
RowsOf(code, d) ==
    {i \in 1..Len(Panel) : Panel[i].alpha_3_code = code /\ Panel[i].date_rep = d}

\* the entity reports on that date in the raw feed
Reported(code, d) ==
    \E i \in 1..Len(RawRows) : RawRows[i].alpha_3_code = code /\ RawRows[i].date_rep = d

\* the sum of the entity's reported values of one column up to a date
RECURSIVE ReportedUpTo(_, _, _, _)
ReportedUpTo(raw, code, d, col) ==
    IF raw = <<>> THEN 0
    ELSE (IF Head(raw).alpha_3_code = code /\ Head(raw).date_rep <= d
          THEN Head(raw)[col] ELSE 0) + ReportedUpTo(Tail(raw), code, d, col)

\* C1: after create_country_level_dataset returns a panel, every alpha_3_code
\* of the entity-code table has exactly one panel row on every date of the raw
\* feed's date range, entities without any raw row included.
C1_PanelComplete ==
    Returned =>
        \A code \in Column(IsoRows, "alpha_3_code") : \A d \in RawDateRange :
            Cardinality(RowsOf(code, d)) = 1

\* every attempt of this call finds no file (a non-200 status)
AllAttemptsMissing ==
    \A k \in 0..(arg_max_consecutive_dates - 1) :
        SiteStatus(IF arg_walk_back THEN -k ELSE k) = "missing"

\* get_latest_ecdc_data has been called and has returned
FeedStageOver == outcome # "none" /\ pc # "loop"

\* C2: get_latest_ecdc_data never issues more than max_consecutive_dates GETs;
\* when every attempt returns a non-200 status it issues exactly that many,
\* returns None, and the assembly ends without a panel.
C2_AttemptsBounded ==
    /\ attempts <= arg_max_consecutive_dates
    /\ (AllAttemptsMissing /\ FeedStageOver) =>
           /\ attempts = arg_max_consecutive_dates
           /\ IsNone(covid_country_raw_data)
           /\ IsNone(covid_country_data)
           /\ pc # "create"
           /\ pc = "idle" => outcome \in {"aborted", "raised"}

C2_Witness ==
    /\ arg_max_consecutive_dates = 3 /\ arg_walk_back
    /\ AllAttemptsMissing
    /\ pc = "idle" /\ outcome = "aborted"
    /\ attempts = 3 /\ IsNone(covid_country_data)

MissingInput ==
    IsNone(covid_country_raw_data) \/ IsNone(iso_country_codes)
        \/ IsNone(regions_continents_data)

\* C3: when one of the three raw inputs is None after the fetch stage, the
\* run aborts at the integrity check with the panel left as it was, and
\* create_country_level_dataset is never entered with a missing input.
C3_AbortsOnMissingInput ==
    [][/\ (pc = "check" /\ MissingInput) =>
              (pc' = "idle" /\ outcome' = "aborted"
                  /\ covid_country_data' = covid_country_data)
       /\ (pc # "create" /\ pc' = "create") => ~MissingInput']_vars

C3_Witness ==
    /\ pc = "idle" /\ outcome = "aborted"
    /\ IsNone(covid_country_raw_data) /\ ~IsNone(iso_country_codes)
    /\ IsNone(covid_country_data)

\* the cumulative columns do not decrease from a date to a later date
CumulativeMonotone ==
    \A i, j \in 1..Len(Panel) :
        (Panel[i].alpha_3_code = Panel[j].alpha_3_code
            /\ Panel[i].date_rep < Panel[j].date_rep) =>
                /\ Panel[i].cum_cases <= Panel[j].cum_cases
                /\ Panel[i].cum_deaths <= Panel[j].cum_deaths

\* C4 (as claimed): cum_cases and cum_deaths are non-decreasing along date
\* for every entity, for every raw feed the function accepts.
C4_CumulativeMonotone == Returned => CumulativeMonotone

RawNonNegative ==
    \A i \in 1..Len(RawRows) : RawRows[i].cases >= 0 /\ RawRows[i].deaths >= 0

\* C4 (amended): cum_cases and cum_deaths are non-decreasing along date for
\* every entity, for every raw feed whose new cases and new deaths are all
\* non-negative.
C4_MonotoneOnNonNegativeFeed == (Returned /\ RawNonNegative) => CumulativeMonotone

C4_Witness ==
    /\ Returned /\ RawNonNegative
    /\ \E i, j, k \in 1..Len(Panel) :
          /\ Panel[i].alpha_3_code = Panel[j].alpha_3_code
          /\ Panel[j].alpha_3_code = Panel[k].alpha_3_code
          /\ Panel[i].date_rep < Panel[j].date_rep
          /\ Panel[j].date_rep < Panel[k].date_rep
          /\ 0 < Panel[i].cum_cases /\ Panel[i].cum_cases < Panel[j].cum_cases
          /\ Panel[j].cum_deaths < Panel[k].cum_deaths

\* the first date of the rows of one entity in the panel
EntityMinDate(code) ==
    Min({Panel[i].date_rep : i \in {k \in 1..Len(Panel) : Panel[k].alpha_3_code = code}})

\* C5: the growth rates are null on the minimum date of every entity, and no
\* growth-rate cell of the panel holds an infinite value, positive or
\* negative.
C5_GrowthNeverInfinite ==
    Returned =>
        \A i \in 1..Len(Panel) :
            /\ Panel[i].date_rep = EntityMinDate(Panel[i].alpha_3_code) =>
                   /\ IsNaN(Panel[i].infections_growth_rate)
                   /\ IsNaN(Panel[i].deaths_growth_rate)
            /\ ~IsInfinite(Panel[i].infections_growth_rate)
            /\ ~IsInfinite(Panel[i].deaths_growth_rate)

\* C6: mortality_rate is never null, and it is 0 on every row where cum_cases
\* is 0, whatever cum_deaths is.
C6_MortalityZeroWithoutCases ==
    Returned =>
        \A i \in 1..Len(Panel) :
            /\ ~IsNaN(Panel[i].mortality_rate)
            /\ Panel[i].cum_cases = 0 => Panel[i].mortality_rate = Num(0, 1)

\* C7: entity A (population 100) reports 1, 0, 2 new cases on the days 1-3,
\* the code table lists A, B, C and the region table maps A to Asia and B to
\* Europe: the panel has 9 rows, the rows of C have null continent and null
\* fractions, and A has cum_cases 3 and fraction_infected 3/100 on day 3.
C7_Scenario ==
    (Returned /\ ecdc_sheet = ScenarioSheet /\ iso_page = Some(IsoABC)
        /\ regions_page = Some(RegionsScenario)) =>
        /\ Len(Panel) = 9
        /\ \A i \in 1..Len(Panel) :
               Panel[i].alpha_3_code = "CCC" =>
                   /\ Panel[i].continent = NullStr
                   /\ IsNaN(Panel[i].fraction_infected)
                   /\ IsNaN(Panel[i].fraction_deaths)
        /\ \A d \in 1..3 : \E i \in 1..Len(Panel) :
               Panel[i].alpha_3_code = "CCC" /\ Panel[i].date_rep = d
        /\ \E i \in 1..Len(Panel) :
               /\ Panel[i].alpha_3_code = "AAA" /\ Panel[i].date_rep = 3
               /\ Panel[i].cum_cases = 3
               /\ Panel[i].fraction_infected = Num(3, 100)

\* C8: every entity of the raw feed has one row on every date of the global
\* date range; the rows of dates it did not report have cases = 0 and
\* deaths = 0, and cum_cases / cum_deaths equal the sum of its reported
\* values on the dates up to and including the row's date.
C8_Densified ==
    Returned =>
        \A code \in Column(RawRows, "alpha_3_code") \ {NullStr} : \A d \in RawDateRange :
            /\ Cardinality(RowsOf(code, d)) = 1
            /\ \A i \in RowsOf(code, d) :
                  /\ ~Reported(code, d) => (Panel[i].cases = 0 /\ Panel[i].deaths = 0)
                  /\ Panel[i].cum_cases = ReportedUpTo(RawRows, code, d, "cases")
                  /\ Panel[i].cum_deaths = ReportedUpTo(RawRows, code, d, "deaths")

\* an entity with a single report, inside a longer global range, whose count
\* is carried to a later synthesized row and which has an earlier zero row
C8_Witness ==
    /\ Returned
    /\ \E code \in Column(RawRows, "alpha_3_code") :
          /\ Cardinality({d \in RawDateRange : Reported(code, d)}) = 1
          /\ \E i, j \in 1..Len(Panel) :
                /\ Panel[i].alpha_3_code = code /\ Panel[j].alpha_3_code = code
                /\ ~Reported(code, Panel[i].date_rep) /\ ~Reported(code, Panel[j].date_rep)
                /\ Panel[i].date_rep < Panel[j].date_rep
                /\ Panel[i].cum_cases = 0 /\ Panel[j].cum_cases > 0
                /\ Panel[j].cases = 0

\* C9: every entity of the code table without a row in the raw feed has a
\* full run of panel rows over the date range with cases, deaths, cum_cases
\* and cum_deaths 0, population_2018 null, codes and name from the code
\* table, and null fraction_infected / fraction_deaths.
C9_MissingEntitiesZeroRun ==
    Returned =>
        \A k \in 1..Len(IsoRows) :
            IsoRows[k].alpha_3_code \notin Column(RawRows, "alpha_3_code") =>
                \A d \in RawDateRange :
                    \E i \in RowsOf(IsoRows[k].alpha_3_code, d) :
                        /\ Panel[i].cases = 0 /\ Panel[i].deaths = 0
                        /\ Panel[i].cum_cases = 0 /\ Panel[i].cum_deaths = 0
                        /\ IsNaN(Panel[i].population_2018)
                        /\ Panel[i].alpha_2_code = IsoRows[k].alpha_2_code
                        /\ Panel[i].country = StrReplaceUnderscore(IsoRows[k].country_name)
                        /\ IsNaN(Panel[i].fraction_infected)
                        /\ IsNaN(Panel[i].fraction_deaths)

\* C10: every panel row whose display name is in the override table carries
\* the override continent, whatever the region join produced for it.
C10_OverrideWins ==
    Returned =>
        \A i \in 1..Len(Panel) : \A k \in 1..Len(country_exceptions) :
            Panel[i].country = country_exceptions[k].country =>
                Panel[i].continent = country_exceptions[k].continent

\* a Kosovo row that the region table classifies as Asia, shown as Europe
C10_Witness ==
    /\ Returned
    /\ \E g \in 1..Len(RegionRows) :
          RegionRows[g].iso_alpha3_code = "XKX" /\ RegionRows[g].continent = "Asia"
    /\ \E i \in 1..Len(Panel) :
          /\ Panel[i].alpha_3_code = "XKX" /\ Panel[i].country = Kosovo
          /\ Panel[i].continent = "Europe"

\* the table the region join received in the run that returned the panel
BeforeJoin == PanelBeforeJoin(RawRows, IsoRows, hash_seed, synthesis_faults)

\* the rows of the region table that carry the code
RegionMatches(code) ==
    {g \in 1..Len(RegionRows) : RegionRows[g].iso_alpha3_code = code}

Overridden(name) ==
    \E k \in 1..Len(country_exceptions) : country_exceptions[k].country = name

\* C11: the region enrichment is a left join on alpha_3_code: every row of
\* the table before the join is in the panel exactly once and in place, a
\* row whose code has a match carries that match's continent and region
\* labels, and a row whose code has no match has null continent, region_1
\* and region_2, unless an override applies to its display name.
C11_LeftJoinKeepsRows ==
    Returned =>
        /\ Len(Panel) = Len(BeforeJoin)
        /\ \A i \in 1..Len(BeforeJoin) :
               /\ \A f \in DOMAIN BeforeJoin[i] \ {"country"} :
                      Panel[i][f] = BeforeJoin[i][f]
               /\ \A g \in RegionMatches(BeforeJoin[i].alpha_3_code) :
                      /\ Panel[i].region_1 = RegionRows[g].region_1
                      /\ Panel[i].region_2 = RegionRows[g].region_2
                      /\ Overridden(BeforeJoin[i].country)
                             \/ Panel[i].continent = RegionRows[g].continent
               /\ RegionMatches(BeforeJoin[i].alpha_3_code) = {} =>
                      /\ Panel[i].region_1 = NullStr
                      /\ Panel[i].region_2 = NullStr
                      /\ Overridden(BeforeJoin[i].country)
                             \/ Panel[i].continent = NullStr

\* the create call of this run is over, by a return or by an exception
CreateOver ==
    /\ pc = "idle" /\ outcome \in {"returned", "raised"}
    /\ ~IsNone(covid_country_raw_data)

\* the raw feed without the rows of one entity
FeedWithout(code) == SelectSeq(RawRows, LAMBDA r : r.alpha_3_code # code)

\* C12: when the synthesis of one entity of the raw feed raises, the run is
\* not aborted: create_country_level_dataset returns the panel it would
\* return on the feed without that entity, and prints the entity's code.
C12_FailingEntitySkipped ==
    CreateOver =>
        \A c \in Column(RawRows, "alpha_3_code") :
            synthesis_faults = {c} =>
                /\ Returned
                /\ \E k \in 1..Len(printed) :
                       printed[k].msg = "Issue encountered" /\ printed[k].arg = c
                /\ Panel = CountryLevelDataset(FeedWithout(c), IsoRows, RegionRows,
                                               hash_seed, {})

\* the date of the k-th attempt of a walk that starts at day 0
AttemptDate(k) == IF arg_walk_back THEN -(k - 1) ELSE k - 1

\* C13: the k-th attempt of get_latest_ecdc_data requests the file dated
\* k-1 days before the reference date when walk_back is True and k-1 days
\* after it otherwise; no attempt follows a successful one, and the feed
\* returned is the one of the first successful date.
C13_WalkOrder ==
    /\ Len(requested) = attempts
    /\ \A k \in 1..Len(requested) : requested[k] = AttemptDate(k)
    /\ \A k \in 1..(Len(requested) - 1) : SiteStatus(requested[k]) # "ok"
    /\ (pc # "loop" /\ ~IsNone(covid_country_raw_data)) =>
           /\ SiteStatus(requested[Len(requested)]) = "ok"
           /\ covid_country_data_date = Some(requested[Len(requested)])
           /\ covid_country_raw_data = Some(ecdc_sheet)

\* a walk back that finds the file of two days before at its third attempt
C13_Witness ==
    /\ arg_walk_back /\ requested = <<0, -1, -2>>
    /\ pc = "iso"
    /\ covid_country_data_date = Some(-2) /\ ~IsNone(covid_country_raw_data)

\* the inputs that are None at the integrity check
MissingInputs ==
    {n \in {"covid_country_raw_data", "iso_country_codes", "regions_continents_data"} :
        \/ n = "covid_country_raw_data" /\ IsNone(covid_country_raw_data)
        \/ n = "iso_country_codes" /\ IsNone(iso_country_codes)
        \/ n = "regions_continents_data" /\ IsNone(regions_continents_data)}

\* the inputs that a printed argument names: the elements of the printed
\* list that are names of inputs
NamedInputs(arg) ==
    {n \in {"covid_country_raw_data", "iso_country_codes", "regions_continents_data"} :
        \E k \in 1..Len(arg) : arg[k] = Some(n)}

\* C14: when generate_country_level_dataset aborts on the integrity check,
\* the report it prints names exactly the inputs that are missing.
C14_ReportNamesMissingInputs ==
    (pc = "idle" /\ outcome = "aborted") =>
        /\ printed # <<>>
        /\ printed[Len(printed)].msg = "Unable to generate country-level dataset"
        /\ NamedInputs(printed[Len(printed)].arg) = MissingInputs

\* the rows of the raw feed that carry an entity code
IdentifiedRows == SelectSeq(RawRows, LAMBDA r : r.alpha_3_code # NullStr)

\* C15: the raw-feed rows whose alpha_3_code is null are dropped before
\* densification: no panel row has a null alpha_3_code, the entities of the
\* panel are those of the rows with a code, the dates of the panel are the
\* date range of the rows with a code, and the cumulative counts of every
\* entity are the sums of its own rows.
C15_RowsWithoutCodeDropped ==
    Returned =>
        /\ \A i \in 1..Len(Panel) : Panel[i].alpha_3_code # NullStr
        /\ Column(Panel, "alpha_3_code") = Column(IdentifiedRows, "alpha_3_code")
        /\ Column(Panel, "date_rep") =
               Min(Column(IdentifiedRows, "date_rep"))..Max(Column(IdentifiedRows, "date_rep"))
        /\ \A i \in 1..Len(Panel) :
               /\ Panel[i].cum_cases =
                      ReportedUpTo(IdentifiedRows, Panel[i].alpha_3_code,
                                   Panel[i].date_rep, "cases")
               /\ Panel[i].cum_deaths =
                      ReportedUpTo(IdentifiedRows, Panel[i].alpha_3_code,
                                   Panel[i].date_rep, "deaths")

\* a feed whose row without code is dated after every row with a code
C15_Witness ==
    /\ Returned
    /\ \E i \in 1..Len(RawRows) :
          /\ RawRows[i].alpha_3_code = NullStr /\ RawRows[i].cases > 0
          /\ RawRows[i].date_rep > Max(Column(IdentifiedRows, "date_rep"))
    /\ Cardinality(Column(IdentifiedRows, "alpha_3_code")) = 2

\* name is source with every underscore turned into a space and every other
\* character as it is
UnderscoresToSpaces(source, name) ==
    /\ Len(name) = Len(source)
    /\ \A j \in 1..Len(source) :
           name[j] = (IF source[j] = "_" THEN " " ELSE source[j])

\* C16: no display name of the panel contains an underscore: the name of a
\* panel row is the name its entity has in the feed with every underscore
\* replaced by a space, and a name without underscore is unchanged.
C16_NoUnderscoreInNames ==
    Returned =>
        \A i \in 1..Len(Panel) :
            /\ \A j \in 1..Len(Panel[i].country) : Panel[i].country[j] # "_"
            /\ \E r \in 1..Len(RawRows) :
                   /\ RawRows[r].alpha_3_code = Panel[i].alpha_3_code
                   /\ UnderscoresToSpaces(RawRows[r].country, Panel[i].country)
                   /\ (\A j \in 1..Len(RawRows[r].country) : RawRows[r].country[j] # "_")
                          => Panel[i].country = RawRows[r].country

\* a panel with a name that had an underscore and a name that had none
C16_Witness ==
    /\ Returned
    /\ \E r \in 1..Len(RawRows) : RawRows[r].country = <<"A", "_", "a">>
    /\ \E i, k \in 1..Len(Panel) :
          Panel[i].country = <<"A", " ", "a">> /\ Panel[k].country = Kosovo

\* get_iso_country_codes_data has returned in this run
IsoFetched == pc \in {"regions", "check", "create"} /\ ~IsNone(iso_page)

\* C17: get_iso_country_codes_data partitions the fetched rows: the
\* returned table holds exactly the rows whose alpha_3_code has length 3,
\* and every row whose alpha_3_code is longer or shorter is retained in
\* iso_country_codes_dropped.
C17_CodeRowsPartitioned ==
    IsoFetched =>
        \A k \in 1..Len(Get(iso_page)) :
            LET code == Get(iso_page)[k].alpha_3_code
            IN  /\ code \in Column(IsoRows, "alpha_3_code") <=> CodeLen(code) = 3
                /\ CodeLen(code) # 3 =>
                       code \in Column(Get(iso_country_codes_dropped), "alpha_3_code")

\* C18: for every entity and every date after the entity's first date, a
\* growth rate that is not null is the percentage change of the cumulative
\* column from the preceding date of the same entity, also when two codes
\* share one display name.
C18_GrowthWithinEntity ==
    Returned =>
        \A i, j \in 1..Len(Panel) :
            (Panel[i].alpha_3_code = Panel[j].alpha_3_code
                /\ Panel[i].date_rep = Panel[j].date_rep + 1) =>
                    /\ IsNaN(Panel[i].infections_growth_rate)
                           \/ Panel[i].infections_growth_rate =
                                  PctChange(Panel[j].cum_cases, Panel[i].cum_cases)
                    /\ IsNaN(Panel[i].deaths_growth_rate)
                           \/ Panel[i].deaths_growth_rate =
                                  PctChange(Panel[j].cum_deaths, Panel[i].cum_deaths)

\* C19: get_latest_ecdc_data never raises because of a failed retrieval: no
\* step of the function ends the run by an exception, and the function gives
\* up (returns None) only when max_consecutive_dates attempts have been made,
\* whatever the kind of failure of an attempt.
C19_FetchNeverRaises ==
    [][/\ pc = "loop" => outcome' # "raised"
       /\ (pc \in {"idle", "loop"} /\ pc' = "iso" /\ IsNone(covid_country_raw_data')) =>
              attempts' = arg_max_consecutive_dates]_vars

\* C20: the panel create_country_level_dataset returns on a raw feed, an
\* entity-code table and a region table is the same whatever the iteration
\* order of the sets of the process: the panel of this run equals the panel
\* of a run on the same inputs under every other hash seed.
C20_Deterministic ==
    Returned =>
        \A seed \in 0..MaxSeed :
            Panel = CountryLevelDataset(RawRows, IsoRows, RegionRows, seed, {})

\* a run whose set of dates to add is iterated in another order than under
\* the seed 0
C20_Witness ==
    /\ Returned /\ hash_seed # 0
    /\ \E code \in Column(RawRows, "alpha_3_code") :
          LET dates == RawDateRange \ Column(DfCountry(RawRows, code), "date_rep")
          IN  /\ Cardinality(dates) >= 2
              /\ SetOrder(dates, hash_seed) # SetOrder(dates, 0)

\* the alpha_3_codes of the entity-code table
ListedCodes == Column(IsoRows, "alpha_3_code")

RunFeed ==
    IF requested # <<>> /\ SiteStatus(requested[Len(requested)]) = "ok"
    THEN Some(ecdc_sheet) ELSE None

\* C26: a run that fails the integrity check leaves covid_country_data as it
\* was (None on a first run, the panel of the last successful run otherwise)
\* while covid_country_raw_data, iso_country_codes and
\* regions_continents_data hold the fetch results of this run; a successful
\* run replaces covid_country_data by the panel assembled from the fetch
\* results of this run alone.
C26_FrameOfRun ==
    [][/\ (pc = "check" /\ pc' = "idle") =>
              /\ covid_country_data' = covid_country_data
              /\ covid_country_raw_data' = RunFeed
              /\ iso_country_codes' = Some(IsoKept(Get(iso_page)))
              /\ regions_continents_data' = Some(RegionsFormatted(Get(regions_page)))
       /\ (pc = "create" /\ outcome' = "returned") =>
              covid_country_data' =
                  create_country_level_dataset(Some(ecdc_sheet),
                      Some(IsoKept(Get(iso_page))),
                      Some(RegionsFormatted(Get(regions_page))), hash_seed,
                      synthesis_faults)]_vars

\* a failed run after a successful one on another sheet and other pages: the
\* old panel is still held, the raw feed is None and the code table is the
\* one of the failed run
C26_Witness ==
    /\ pc = "idle" /\ outcome = "aborted"
    /\ ~IsNone(covid_country_data)
    /\ Column(Panel, "alpha_3_code") = {"AAA"}
    /\ IsNone(covid_country_raw_data)
    /\ ecdc_sheet # ScenarioSheet
    /\ iso_country_codes = Some(IsoKept(IsoAll))

C28_Terminates ==
    /\ [][(pc = "loop" /\ pc' = "loop") =>
             /\ max_consecutive_dates' < max_consecutive_dates
             /\ max_consecutive_dates > 1
             /\ attempts' = attempts + 1]_vars
    /\ [][(pc = "loop" /\ pc' # "loop" /\ arg_max_consecutive_dates <= 1) =>
             (attempts' = 1 /\ requested' = <<0>>)]_vars
    /\ (pc = "loop" ~> pc # "loop")

\* a call with a negative max_consecutive_dates whose only request found no
\* file has returned None
C28_Witness ==
    /\ arg_max_consecutive_dates < 0
    /\ SiteStatus(0) = "missing"
    /\ pc = "iso" /\ attempts = 1
    /\ IsNone(covid_country_raw_data)

\* C23: over every sequence of UI events, a refresh invokes
\* generate_country_level_dataset exactly once, and every other callback
\* reads the held panel without invoking the assembly whenever a panel is
\* held when it begins: a run begins only with a callback, at most once in
\* a callback, and a callback that begins while a panel is held begins a run
\* exactly when it is refresh_data.
C23_InvocationsPerEvent ==
    [][/\ (callback = "none" /\ callback' = "refresh_data") =>
              (invocations' = 1 /\ pc' # "idle")
       /\ (callback = "none" /\ callback' \in Callbacks \ {"refresh_data"}
               /\ ~IsNone(covid_country_data)) =>
              (invocations' = 0 /\ pc' = "idle"
                   /\ covid_country_data' = covid_country_data)
       /\ (pc = "idle" /\ pc' # "idle") => (callback = "none" /\ invocations' = 1)
       /\ callback # "none" => invocations' = invocations]_vars

\* after a refresh, serve_table is being served from the held panel without
\* a run
C23_Witness ==
    /\ callback = "serve_table"
    /\ invocations = 0 /\ pc = "idle"
    /\ ~IsNone(covid_country_data)
    /\ ~IsNone(ui_result)
    /\ Get(ui_result).of = "refresh_data"

\* C24: when the run a refresh triggers fails (the fetch is exhausted or the
\* integrity check fails) and no panel was assembled before, refresh_data
\* completes without raising.
C24_RefreshToleratesFailedRun ==
    (/\ callback = "none"
     /\ ~IsNone(ui_result)
     /\ Get(ui_result).of = "refresh_data"
     /\ outcome = "aborted"
     /\ IsNone(covid_country_data)) =>
        Get(ui_result).result = "ok"

\* C21: the cache entries of the caching handler are keyed by the reference
\* date of the run and are immutable once written: a call of
\* get_latest_ecdc_data or create_country_level_dataset for the reference
\* date D, D passed through the as_at_date argument included, never returns
\* a content written by a run for another reference date, and a file that
\* exists is never overwritten with another content.
C21_CacheKeyedByReferenceDate ==
    [][/\ (~IsNone(cached_call') /\ ~IsNone(Get(cached_call').result)) =>
              Get(Get(cached_call').result).written_for = Get(cached_call').ref
       /\ \A f \in data_folder : \A g \in data_folder' :
              f.name = g.name => f.content = g.content]_vars

\* C30: after every sequence of _export_and_clean calls on one folder the
\* folder holds at most one file per dataset kind; a call writes the file
\* named after the date of the handler, removes every other file of the same
\* kind and leaves the files of the other kinds untouched.
C30_OneFilePerKind ==
    [][/\ \A k1 \in Kinds : \A k2 \in Kinds \ {k1} :
              ~OccursIn(k1, FileName(self_as_at_date, k2))
       /\ \A kind \in Kinds :
              Cardinality({f \in data_folder' : KindSuffix(f.name) = kind}) <= 1
       /\ data_folder' # data_folder =>
              \E f \in data_folder' :
                  /\ f \notin data_folder
                  /\ f.name[1] = ToString(self_as_at_date)
                  /\ data_folder' =
                         {g \in data_folder : KindSuffix(g.name) # KindSuffix(f.name)}
                             \cup {f}]_vars

\* files of three kinds, written by handlers of two dates: the file of the
\* later handler has replaced the one of its kind
C30_Witness ==
    /\ Cardinality(data_folder) = 3
    /\ \E f \in data_folder : \E g \in data_folder :
           f.name[1] # g.name[1] /\ g.name[1] = ToString(self_as_at_date)
                /\ KindSuffix(g.name) = KindEcdc

\* the last call of a caching function
Call == Get(cached_call)

UsaPanel == Get(covid_usa_state_data)

\* the dates of [min(date), max(date)] of the state feed
UsaDateRange == Min(Column(usa_state_feed, "date"))..Max(Column(usa_state_feed, "date"))

\* the cumulative value the state reported last on or before the date, 0
\* when it has not reported yet
LastReported(state, d, col) ==
    LET earlier == {i \in 1..Len(usa_state_feed) :
                       usa_state_feed[i].state = state /\ usa_state_feed[i].date <= d}
    IN  IF earlier = {} THEN 0
        ELSE usa_state_feed[CHOOSE i \in earlier :
                                \A j \in earlier :
                                    usa_state_feed[j].date <= usa_state_feed[i].date][col]

\* the fips of the states of the code table that the feed lacks
AbsentFips ==
    Column(UsaStateCodes(usa_state_codes_page), "fips") \
        {Zfill2(f) : f \in Column(usa_state_feed, "fips")}

\* C29: generate_usa_state_data returns a dense panel: every state of the
\* feed and every state of the state-code table that the feed lacks has
\* exactly one row on every date of the date range of the feed; on a date
\* without report cum_cases and cum_deaths of a state are its last reported
\* values (0 before its first report), and the four count columns of a state
\* the feed lacks are 0.
C29_UsaPanelDense ==
    ~IsNone(covid_usa_state_data) =>
        /\ \A state \in Column(usa_state_feed, "state") : \A d \in UsaDateRange :
               LET rows == {i \in 1..Len(UsaPanel) :
                               UsaPanel[i].state = state /\ UsaPanel[i].date = d}
               IN  /\ Cardinality(rows) = 1
                   /\ \A i \in rows :
                          /\ UsaPanel[i].cum_cases = Num(LastReported(state, d, "cases"), 1)
                          /\ UsaPanel[i].cum_deaths =
                                 Num(LastReported(state, d, "deaths"), 1)
        /\ \A fips \in AbsentFips : \A d \in UsaDateRange :
               LET rows == {i \in 1..Len(UsaPanel) :
                               UsaPanel[i].fips = fips /\ UsaPanel[i].date = d}
               IN  /\ Cardinality(rows) = 1
                   /\ \A i \in rows :
                          /\ UsaPanel[i].cum_cases = Num(0, 1)
                          /\ UsaPanel[i].cum_deaths = Num(0, 1)
                          /\ UsaPanel[i].cases = Num(0, 1)
                          /\ UsaPanel[i].deaths = Num(0, 1)

\* a panel in which a state carries its last report over a date it did not
\* report on, next to a state before its first report and two states the
\* feed lacks
C29_Witness ==
    /\ ~IsNone(covid_usa_state_data)
    /\ Cardinality(AbsentFips) = 2
    /\ \E i \in 1..Len(UsaPanel) :
           /\ UsaPanel[i].cum_cases = Num(2, 1)
           /\ \A j \in 1..Len(usa_state_feed) :
                  ~(usa_state_feed[j].state = UsaPanel[i].state
                        /\ usa_state_feed[j].date = UsaPanel[i].date)
    /\ \E i \in 1..Len(UsaPanel) :
           /\ UsaPanel[i].state \in Column(usa_state_feed, "state")
           /\ LastReported(UsaPanel[i].state, UsaPanel[i].date, "cases") = 0

====
